---- MODULE Spec2Model ----
(***************************************************************************)
(* Model of the rpi-fan-controller repository.                             *)
(*                                                                         *)
(*  - the daemon side (rpi5_client): the buffered command reader           *)
(*    serial_read_complete_command, the serial open/close/resync           *)
(*    functions and the main loop run_main_loop with its counters;         *)
(*  - the controller side (Arduino): DeviceCommunication::pollDevices,     *)
(*    TemperatureSensor and FanController.                                 *)
(*                                                                         *)
(* Bytes are modelled as one-character strings; CR and LF are the two      *)
(* line-ending bytes.  Buffers are sequences whose length is the cursor.   *)
(***************************************************************************)
EXTENDS Integers, Sequences, FiniteSets, TLC

\* ------------------------------------------------------------------------
\* Bounds of the model (scaled sizes and input menus)
\* ------------------------------------------------------------------------

\* sizeof(g_read_buffer), 512 in the source, scaled down
ReadBufSize == 9
\* sizeof(buffer) of run_main_loop, 256 in the source, scaled down
CmdBufSize == 7
\* sizeof(temp_buf), 64 in the source, scaled down: one read() returns at
\* most TempBufSize - 1 bytes
TempBufSize == 8
\* the byte streams of the reader specification are made of at most this
\* many tokens
MaxTokens == 5
\* the main loop is explored until consecutive_timeouts reaches this value
MaxTimeouts == 32
\* the main loop is explored until consecutive_errors reaches this value
MaxErrors == 7
\* number of file descriptors the process may hold
MaxFds == 2
\* NUM_DEVICES, 4 in the source, scaled down
NumDevices == 2
\* time passes between two iterations of loop() in steps of this many ms
Quantum == 500
\* the poller is explored until a missedPolls counter reaches this value
MaxMissed == 11
\* an endpoint sends a line only while the controller's line buffer
\* would stay within this many tokens
MaxLine == 8
\* the readings of the curve specification are -1, 0 and the whole
\* degrees CurveLo..CurveHi
\* the endpoints write at most this many lines in all
MaxReplies == 1
CurveLo == 38
CurveHi == 67
\* the readings of the codec specification are a few fixed ones and every
\* hundredth of a degree from CodecLo to CodecHi
CodecLo == 3990
CodecHi == 4010
\* the falling edges of one burst on the tachometer pin, and the most
\* single edges beside it between two resets of the counter
PulseBurst == 2185
MaxEdges == 3

\* ------------------------------------------------------------------------
\* Program constants
\* ------------------------------------------------------------------------

\* if (consecutive_errors >= 5)
ReconnectErrors == 5
\* if (consecutive_timeouts > 30 && ...)
ProbeTimeouts == 30
\* if (successful_exchanges > 10) successful_exchanges = 1
ExchangeWrap == 10
\* include/config.h
POLL_INTERVAL == 1000
RESPONSE_TIMEOUT == 200
MAX_MISSED_POLLS == 10
CPU_TEMP_MIN == 40
CPU_TEMP_MAX == 60
NVME_TEMP_MIN == 40
NVME_TEMP_MAX == 65
FAN_SPEED_MIN == 30
FAN_SPEED_MAX == 255
\* FAN_CURVE_EXPONENT = 2.5, as the fraction CurveExpNum / CurveExpDen
CurveExpNum == 5
CurveExpDen == 2
PORT_SWITCH_DELAY == 50
\* temperatures are kept in hundredths of a degree, the resolution of
\* "%.2f" in temperature_format_response
TempScale == 100
\* unsigned int on the ATmega328P has 16 bits
UIntRange == 65536
\* rpm = count * 30
RpmPerPulse == 30

\* ------------------------------------------------------------------------
\* Bytes and sequences
\* ------------------------------------------------------------------------

CR == "CR"
LF == "LF"
SP == " "

POLL == <<"P", "O", "L", "L">>

Min(a, b) == IF a < b THEN a ELSE b
Max(a, b) == IF a > b THEN a ELSE b

Take(s, k) == SubSeq(s, 1, k)
Drop(s, k) == SubSeq(s, k + 1, Len(s))
LastN(s, k) == IF Len(s) <= k THEN s ELSE SubSeq(s, Len(s) - k + 1, Len(s))

IsPrefix(s, t) == Len(s) <= Len(t) /\ SubSeq(t, 1, Len(s)) = s

\* ------------------------------------------------------------------------
\* serial_read_complete_command: accumulation with the sliding window
\* ------------------------------------------------------------------------

\* One byte appended the way a plausible slip would do it: when the buffer
\* is full the new byte is dropped instead of the oldest one.
AppendByteDropNewest(buf, c) ==
    IF Len(buf) < ReadBufSize - 1 THEN Append(buf, c) ELSE buf

\* One iteration of the append loop: below capacity the byte is stored at
\* the cursor, otherwise the buffer is shifted left by one and the byte is
\* stored in the last data slot.
AppendByte(buf, c) ==
    IF Len(buf) < ReadBufSize - 1 THEN Append(buf, c) ELSE Append(Tail(buf), c)

RECURSIVE AppendBytes(_, _)
AppendBytes(buf, chunk) ==
    IF chunk = <<>> THEN buf
    ELSE AppendBytes(AppendByte(buf, Head(chunk)), Tail(chunk))

\* Number of bytes the sliding window drops when chunk is appended to buf.
DroppedBy(buf, chunk) == Max(0, Len(buf) + Len(chunk) - (ReadBufSize - 1))

\* ------------------------------------------------------------------------
\* serial_read_complete_command: the terminator scan (0-based indexes as in
\* the source; buf[i+1] is the byte at C index i)
\* ------------------------------------------------------------------------

At(buf, i) == buf[i + 1]

\* first i with buf[i] = CR and buf[i+1] = LF, or -1
FindCRLF(buf) ==
    LET hits == {i \in 0..(Len(buf) - 2) : At(buf, i) = CR /\ At(buf, i + 1) = LF}
    IN  IF hits = {} THEN -1 ELSE CHOOSE i \in hits : \A j \in hits : i <= j

\* first i with buf[i] = LF, or -1
FindLF(buf) ==
    LET hits == {i \in 0..(Len(buf) - 1) : At(buf, i) = LF}
    IN  IF hits = {} THEN -1 ELSE CHOOSE i \in hits : \A j \in hits : i <= j

\* cmd_end: the CR LF pair is searched first, a lone LF only if there is none
CmdEnd(buf) == IF FindCRLF(buf) # -1 THEN FindCRLF(buf) ELSE FindLF(buf)

\* cmd_start: leading CR and LF bytes before cmd_end are skipped
RECURSIVE SkipLeading(_, _, _)
SkipLeading(buf, s, e) ==
    IF s < e /\ (At(buf, s) = LF \/ At(buf, s) = CR)
    THEN SkipLeading(buf, s + 1, e) ELSE s

CmdStart(buf) == SkipLeading(buf, 0, CmdEnd(buf))

\* chars_to_remove: cmd_end plus the length of the line ending found there
CharsToRemove(buf) ==
    LET e == CmdEnd(buf)
    IN  IF e < Len(buf) - 1 /\ At(buf, e) = CR /\ At(buf, e + 1) = LF THEN e + 2
        ELSE IF e < Len(buf) /\ At(buf, e) = LF THEN e + 1
        ELSE e

\* the buffer after the memmove that removes the processed bytes
Remaining(buf) ==
    LET n == CharsToRemove(buf)
    IN  IF n < Len(buf) THEN Drop(buf, n) ELSE <<>>

\* The array g_read_buffer itself, cell by cell (mem[i+1] is the cell at C
\* index i); NUL is the zero byte.  The cells after the cursor cell are
\* never read before they are written, and what a call leaves in them (old
\* bytes, old terminators, the initial zeros) is not tracked: they hold
\* UNTRACKED, which stands for any byte.
NUL == "NUL"
UNTRACKED == "?"

Scrub(mem, pos) ==
    [i \in 1..ReadBufSize |-> IF i > pos + 1 THEN UNTRACKED ELSE mem[i]]

ZeroMem == [i \in 1..ReadBufSize |-> NUL]

\* the append loop without the terminator written after it
MemTerminateNot(mem, pos) == mem

\* g_read_buffer[g_buffer_pos] = '\0'
MemTerminate(mem, pos) == [mem EXCEPT ![pos + 1] = NUL]

\* one iteration of the append loop on the array, the cursor being pos
MemAppendByte(mem, pos, c) ==
    IF pos < ReadBufSize - 1
    THEN [mem EXCEPT ![pos + 1] = c]
    ELSE [i \in 1..ReadBufSize |->
             IF i <= ReadBufSize - 2 THEN mem[i + 1]
             ELSE IF i = ReadBufSize - 1 THEN c
             ELSE mem[i]]

RECURSIVE MemAppendBytes(_, _, _)
MemAppendBytes(mem, pos, chunk) ==
    IF chunk = <<>> THEN mem
    ELSE MemAppendBytes(MemAppendByte(mem, pos, Head(chunk)),
                        Min(pos + 1, ReadBufSize - 1), Tail(chunk))

\* the array after the append loop and the terminator that follows it;
\* newpos is the cursor after the loop
MemAfterAppend(mem, pos, chunk, newpos) ==
    Scrub(MemTerminate(MemAppendBytes(mem, pos, chunk), newpos), newpos)

\* the array after the removal of n processed bytes, the cursor being pos
MemAfterRemove(mem, pos, n) ==
    IF n < pos
    THEN Scrub(MemTerminate([i \in 1..ReadBufSize |->
                                IF i <= pos - n THEN mem[i + n] ELSE mem[i]],
                            pos - n),
               pos - n)
    ELSE Scrub(MemTerminate(mem, 0), 0)

\* the bytes between cmd_start and cmd_end
Segment(buf) == SubSeq(buf, CmdStart(buf) + 1, CmdEnd(buf))

\* cmd_len > 0 && cmd_len < (int)size
SegmentValid(buf) == Len(Segment(buf)) > 0 /\ Len(Segment(buf)) < CmdBufSize

\* ------------------------------------------------------------------------
\* serial_read_complete_command: one call, with its recursive re-entry
\* ------------------------------------------------------------------------

ReadResult(ret, cmd, buf, w, d, ovf, how, mem) ==
    [ret |-> ret, cmd |-> cmd, buf |-> buf, wire |-> w, depth |-> d,
     ovf |-> ovf, how |-> how, mem |-> mem]

\* The possible results of one call when the accumulation buffer is buf and
\* w are the bytes the peer has sent and the daemon has not read yet.
\* select() either times out (nothing has arrived yet), fails, or reports
\* data, and read() then returns the next 1..TempBufSize-1 bytes.  After a
\* skipped (empty or oversized) segment the function calls itself, which
\* waits in select() again (depth counts these re-entries).
RECURSIVE ReadOutcomes(_, _, _, _, _)
ReadOutcomes(mem, buf, w, d, ovf) ==
    {ReadResult(0, <<>>, buf, w, d, ovf, "timeout", mem),
     ReadResult(-1, <<>>, buf, w, d, ovf, "error", mem)}
    \cup UNION {
        LET chunk == Take(w, k)
            b2    == AppendBytes(buf, chunk)
            m2    == MemAfterAppend(mem, Len(buf), chunk, Len(b2))
            o2    == ovf \/ DroppedBy(buf, chunk) > 0
            w2    == Drop(w, k)
            m3    == MemAfterRemove(m2, Len(b2), CharsToRemove(b2))
        IN  IF CmdEnd(b2) = -1
            THEN {ReadResult(0, <<>>, b2, w2, d, o2, "partial", m2)}
            ELSE IF SegmentValid(b2)
            THEN {ReadResult(Len(Segment(b2)), Segment(b2), Remaining(b2),
                             w2, d, o2, "command", m3)}
            ELSE ReadOutcomes(m3, Remaining(b2), w2, d + 1, o2)
        : k \in 1..Min(TempBufSize - 1, Len(w))}

\* ------------------------------------------------------------------------
\* State
\* ------------------------------------------------------------------------

VARIABLES
    g_read_buffer,  \* the accumulation buffer; its length is g_buffer_pos
    g_read_mem,     \* the array g_read_buffer, cell by cell
    wire,           \* reader specification: bytes sent by the peer, unread
    received,       \* reader specification: the bytes read so far
    returned,       \* reader specification: the commands returned so far
    overflowed,     \* reader specification: the window dropped a byte
    lastRet,        \* reader specification: return value of the last call
    lastCall,       \* reader specification: what the last call did
    pc,                   \* run_main_loop: "start", "loop" or "done"
    g_running,            \* cleared by the SIGINT/SIGTERM handler
    serial_fd,            \* the handle run_main_loop holds, -1 if none
    openFds,              \* the descriptors the process has open
    consecutive_errors,
    consecutive_timeouts,
    successful_exchanges,
    startup_sync_mode,
    ev                    \* what the last step of the daemon did

readerVars == <<wire, received, returned, overflowed, lastRet, lastCall>>
frameVars == <<g_read_buffer, g_read_mem, readerVars>>
counterVars == <<consecutive_errors, consecutive_timeouts,
                 successful_exchanges, startup_sync_mode>>
daemonVars == <<pc, g_running, serial_fd, openFds, counterVars, ev>>

\* The controller (Arduino).  Times are kept as the milliseconds elapsed
\* since the recorded instant, capped at the threshold they are compared to.
VARIABLES
    lpc,                  \* "setup" before setup() has run, then "loop"
    deviceTemps,          \* TemperatureSensor: [cpuTemp, nvmeTemp, isValid]
    deviceConnected,
    missedPolls,
    currentPwmValue,      \* FanController
    currentPollingDevice, \* DeviceCommunication: -1 when no cycle runs
    sinceCommand,         \* millis() - commandSentTime, -1 if it is 0
    sincePoll,            \* millis() - lastPollTime
    incomingData,
    deviceResponded,
    listening,            \* SoftwareSerial: the port is listening
    rx,                   \* SoftwareSerial: received and not yet read
    linesSent,            \* the number of lines the endpoints have written
    wrapped,              \* a pass of loop() has run at millis() = 0
    polls,                \* POLL commands sent to each device in this cycle
    sinceDone,            \* time since the last cycle ended, -1 in a cycle
    consumed,             \* the line read from each device since its POLL
    tachCount,            \* Tachometer::tachCount
    rpm,                  \* Tachometer::rpm
    count,                \* calculateRPM: the local copy of tachCount
    tpc,                  \* calculateRPM: the statement to execute next
    intOn,                \* interrupts are enabled
    irq,                  \* an edge arrived while they were disabled
    pulses,               \* runs of tachISR since tachCount was last reset
    taken,                \* runs of tachISR between the last two resets
    cev,                  \* what the last step of the controller did
    curveIn,              \* curve specification: the readings compared
    curveOut,             \* curve specification: the speeds computed
    codecIn,              \* codec specification: the readings encoded
    codecOut              \* codec specification: the text and its decoding

sensorVars == <<deviceTemps, deviceConnected, missedPolls>>
commVars == <<currentPollingDevice, sinceCommand, sincePoll, incomingData,
              deviceResponded>>
portVars == <<listening, rx>>
tachVars == <<tachCount, rpm, count, tpc, intOn, irq, pulses, taken>>
controllerVars == <<lpc, sensorVars, currentPwmValue, commVars, portVars,
                    linesSent, wrapped, polls, sinceDone, consumed, cev,
                    tachVars>>
curveVars == <<curveIn, curveOut>>
codecVars == <<codecIn, codecOut>>
boardVars == <<controllerVars, curveVars, codecVars>>

vars == <<frameVars, daemonVars, boardVars>>

Devices == 0..(NumDevices - 1)

TempRec(c, n, v) == [cpuTemp |-> c, nvmeTemp |-> n, isValid |-> v]

\* what pollDevices leaves behind at the moment it moves on from endpoint
\* dev: the records, the flags of dev, the lines matched and the calls of
\* updateFanSpeed so far in this pass
NoAdvance ==
    [dev |-> -1, temps |-> [i \in Devices |-> TempRec(0, 0, FALSE)],
     connected |-> FALSE, missed |-> 0, matched |-> {}, updates |-> 0,
     pwm |-> 0, line |-> "none", responded |-> FALSE]

NoBoardEvent ==
    [sentTo |-> -1, sentWhile |-> {}, missed |-> {}, disconnected |-> {},
     parsed |-> {}, lines |-> {}, updates |-> 0, writes |-> 0,
     redundant |-> 0, adv |-> NoAdvance,
     started |-> FALSE, idleFor |-> 0, dt |-> -1, despite |-> {}]

\* the tachometer as its definitions leave it, outside calculateRPM
TachIdle ==
    /\ tachCount = 0
    /\ rpm = 0
    /\ count = 0
    /\ tpc = "idle"
    /\ intOn = TRUE
    /\ irq = FALSE
    /\ pulses = 0
    /\ taken = 0

\* the objects as their constructors leave them
ControllerIdle ==
    /\ TachIdle
    /\ lpc = "setup"
    /\ deviceTemps = [i \in Devices |-> TempRec(0, 0, FALSE)]
    /\ deviceConnected = [i \in Devices |-> FALSE]
    /\ missedPolls = [i \in Devices |-> 0]
    /\ currentPwmValue = FAN_SPEED_MIN
    /\ currentPollingDevice = -1
    /\ sinceCommand = -1
    /\ sincePoll = 0
    /\ incomingData = [i \in Devices |-> <<>>]
    /\ deviceResponded = [i \in Devices |-> FALSE]
    /\ listening = [i \in Devices |-> FALSE]
    /\ rx = [i \in Devices |-> <<>>]
    /\ linesSent = 0
    /\ wrapped = FALSE
    /\ polls = [i \in Devices |-> 0]
    /\ sinceDone = 0
    /\ consumed = [i \in Devices |-> "none"]
    /\ cev = NoBoardEvent

NoCurve == [done |-> FALSE, fa |-> 0, fb |-> 0, ua |-> 0, ub |-> 0]

CurveIdle ==
    /\ curveIn = [a |-> 0, b |-> 0, other |-> 0, metric |-> "cpu"]
    /\ curveOut = NoCurve

NoCodec ==
    [done |-> FALSE, text |-> <<>>, accepted |-> FALSE, ok |-> FALSE,
     rec |-> TempRec(0, 0, FALSE)]

CodecIdle ==
    /\ codecIn = [cpu |-> 0, nvme |-> 0]
    /\ codecOut = NoCodec

BoardIdle == ControllerIdle /\ CurveIdle /\ CodecIdle

\* ------------------------------------------------------------------------
\* The reader on its own: a byte stream delivered in arbitrary chunks
\* ------------------------------------------------------------------------

Tokens == {POLL, <<"x">>, <<CR>>, <<LF>>}

RECURSIVE StreamsOf(_)
StreamsOf(n) ==
    IF n = 0 THEN {<<>>}
    ELSE LET S == StreamsOf(n - 1) IN S \cup {s \o t : s \in S, t \in Tokens}

\* no call yet: the select() calls and the discarded segments of a call,
\* how it ended, and the accumulation buffer as it was when it began
NoCall ==
    [waits |-> 0, discards |-> 0, how |-> "none", buf |-> <<>>]

ReaderIdle ==
    /\ wire = <<>>
    /\ received = <<>>
    /\ returned = <<>>
    /\ overflowed = FALSE
    /\ lastRet = 0
    /\ lastCall = NoCall

NoEvent ==
    [reopen |-> "none", ok |-> FALSE, probe |-> "notrun", peak |-> 0,
     ret |-> 0, how |-> "none", got |-> 0, cmd |-> <<>>, responded |-> FALSE,
     sends |-> 0, rolled |-> FALSE, dropped |-> 0, stale |-> 0]

DaemonIdle ==
    /\ pc = "start"
    /\ g_running = TRUE
    /\ serial_fd = -1
    /\ openFds = {}
    /\ consecutive_errors = 0
    /\ consecutive_timeouts = 0
    /\ successful_exchanges = 0
    /\ startup_sync_mode = 1
    /\ ev = NoEvent

FrameInit ==
    /\ g_read_buffer = <<>>
    /\ g_read_mem = ZeroMem
    /\ wire \in StreamsOf(MaxTokens)
    /\ received = <<>>
    /\ returned = <<>>
    /\ overflowed = FALSE
    /\ lastRet = 0
    /\ lastCall = NoCall
    /\ DaemonIdle
    /\ BoardIdle

\* one call of serial_read_complete_command(fd, buffer, size, timeout)
FrameRead ==
    \E o \in ReadOutcomes(g_read_mem, g_read_buffer, wire, 0, FALSE) :
        /\ g_read_buffer' = o.buf
        /\ g_read_mem' = o.mem
        /\ wire' = o.wire
        /\ received' = received \o Take(wire, Len(wire) - Len(o.wire))
        /\ returned' = IF o.ret > 0 THEN Append(returned, o.cmd) ELSE returned
        /\ overflowed' = (overflowed \/ o.ovf)
        /\ lastRet' = o.ret
        /\ lastCall' = [waits |-> o.depth + 1, discards |-> o.depth,
                        how |-> o.how, buf |-> g_read_buffer]
        /\ UNCHANGED <<daemonVars, boardVars>>

FrameNext == FrameRead

SpecFrame == FrameInit /\ [][FrameNext]_vars

\* a call of the reader after the last byte of the stream has been read
FrameReadQuiet == wire = <<>> /\ FrameRead

\* the reader called again and again, as the main loop does, once the
\* stream has ended
SpecFrameLive == FrameInit /\ [][FrameNext]_vars /\ WF_vars(FrameReadQuiet)

\* ------------------------------------------------------------------------
\* Properties of the reader
\* ------------------------------------------------------------------------

\* the whole stream of the behaviour: what was read, then what is unread
Stream == received \o wire

\* The commands the successive calls return when s arrives in one read()
\* on an empty buffer: the first call appends and scans once; every later
\* call, and the re-entry after a skipped segment, finds nothing to read and
\* times out in select().
OneShotCommands(s) ==
    LET b == AppendBytes(<<>>, s)
    IN  IF s # <<>> /\ CmdEnd(b) # -1 /\ SegmentValid(b)
        THEN <<Segment(b)>> ELSE <<>>

\* C1 (as claimed): once a stream short enough for a single read has been
\* delivered in chunks, one chunk per read, the commands returned are the
\* same as those returned when the stream is delivered in a single read.
C1_FramingIdempotence ==
    (wire = <<>> /\ Len(received) <= TempBufSize - 1)
        => returned = OneShotCommands(received)

RECURSIVE IsEmptyLines(_)
IsEmptyLines(s) ==
    \/ s = <<>>
    \/ Len(s) >= 1 /\ s[1] = LF /\ IsEmptyLines(Drop(s, 1))
    \/ Len(s) >= 2 /\ s[1] = CR /\ s[2] = LF /\ IsEmptyLines(Drop(s, 2))

\* one or more empty lines (CR LF or bare LF) followed by POLL CR LF
EmptyLinesThenPoll(s) ==
    /\ Len(s) > Len(POLL) + 2
    /\ LastN(s, Len(POLL) + 2) = POLL \o <<CR, LF>>
    /\ IsEmptyLines(Take(s, Len(s) - Len(POLL) - 2))

\* C4 (as claimed): no returned command is empty, and a stream of empty
\* lines followed by POLL CR LF yields exactly one command, POLL, in total.
C4_EmptyFrameSuppression ==
    /\ \A i \in DOMAIN returned : Len(returned[i]) > 0
    /\ (wire = <<>> /\ EmptyLinesThenPoll(received)) => returned = <<POLL>>

NoLF(s) == \A i \in DOMAIN s : s[i] # LF

\* c is a contiguous run of bytes of s that ends right before a terminator
\* (LF, or CR LF) of s
EndsBeforeTerminator(c, s) ==
    \E e \in 0..(Len(s) - 1) :
        /\ \/ s[e + 1] = LF
           \/ s[e + 1] = CR /\ e + 2 <= Len(s) /\ s[e + 2] = LF
        /\ Len(c) <= e
        /\ SubSeq(s, e - Len(c) + 1, e) = c

\* C5: the cursor stays inside the buffer; while no terminator has been
\* received the buffer holds the most recent bytes (oldest dropped first)
\* and no command is returned; and every returned command is a contiguous
\* run of the received bytes that ends right before a received terminator.
C5_OverflowSafety ==
    /\ Len(g_read_buffer) <= ReadBufSize - 1
    /\ NoLF(received) =>
          /\ g_read_buffer = LastN(received, ReadBufSize - 1)
          /\ returned = <<>>
    /\ \A i \in DOMAIN returned : EndsBeforeTerminator(returned[i], received)

\* more than a buffer of bytes arrived before the first terminator, the
\* window dropped bytes, and a command was extracted afterwards
C5_Witness ==
    /\ overflowed
    /\ Len(returned) = 1
    /\ NoLF(Take(received, ReadBufSize))

\* The frames of a byte stream: the pieces between line feeds, without the
\* CR of a CR LF ending and without leading stray CR bytes, that are not
\* empty and fit the caller's buffer.
RECURSIVE StripLeadingCR(_)
StripLeadingCR(p) ==
    IF p # <<>> /\ Head(p) = CR THEN StripLeadingCR(Tail(p)) ELSE p

FrameOf(piece) ==
    StripLeadingCR(IF piece # <<>> /\ piece[Len(piece)] = CR
                   THEN Take(piece, Len(piece) - 1) ELSE piece)

RECURSIVE Frames(_)
Frames(s) ==
    IF FindLF(s) = -1 THEN <<>>
    ELSE LET f    == FrameOf(Take(s, FindLF(s)))
             rest == Frames(Drop(s, FindLF(s) + 1))
         IN  IF Len(f) > 0 /\ Len(f) < CmdBufSize THEN <<f>> \o rest ELSE rest

\* C7 (as claimed): absent overflow, the commands returned so far are the
\* first frames of the received stream, in arrival order, none merged with a
\* neighbour and none returned twice.
C7_ArrivalOrder ==
    ~overflowed => IsPrefix(returned, Frames(received))

\* ========================================================================
\* The daemon: serial open/close, and run_main_loop
\* ========================================================================

Fds == 0..(MaxFds - 1)

\* serial_close that forgets to close the descriptor.
SerialCloseLeak(fd, open) == open

\* serial_close(fd): the descriptors open afterwards
serial_close(fd, open) == IF fd >= 0 THEN open \ {fd} ELSE open

\* how one call of serial_setup can go
SetupOutcomes == {"ok", "open_fails", "tcgetattr_fails", "tcsetattr_fails"}

\* serial_setup that does not end with serial_reset_read_buffer
SerialSetupNoReset(open, outcome) ==
    LET free == Fds \ open
        fd   == CHOOSE f \in free : \A g \in free : f <= g
    IN  IF outcome = "open_fails" \/ free = {}
        THEN [fd |-> -1, open |-> open, peak |-> Cardinality(open),
              reset |-> FALSE]
        ELSE IF outcome = "ok"
        THEN [fd |-> fd, open |-> open \cup {fd},
              peak |-> Cardinality(open) + 1, reset |-> FALSE]
        ELSE [fd |-> -1, open |-> serial_close(fd, open \cup {fd}),
              peak |-> Cardinality(open) + 1, reset |-> FALSE]

\* serial_setup(port, baud): open() takes the lowest free descriptor; a
\* failing tcgetattr/tcsetattr closes it again and -1 is returned; on
\* success serial_recover_synchronization ends with
\* serial_reset_read_buffer.  peak is the largest number of descriptors
\* open at any point of the call, reset tells whether the read buffer was
\* reset.
serial_setup(open, outcome) ==
    LET free == Fds \ open
        fd   == CHOOSE f \in free : \A g \in free : f <= g
    IN  IF outcome = "open_fails" \/ free = {}
        THEN [fd |-> -1, open |-> open, peak |-> Cardinality(open),
              reset |-> FALSE]
        ELSE IF outcome = "ok"
        THEN [fd |-> fd, open |-> open \cup {fd},
              peak |-> Cardinality(open) + 1, reset |-> TRUE]
        ELSE [fd |-> -1, open |-> serial_close(fd, open \cup {fd}),
              peak |-> Cardinality(open) + 1, reset |-> FALSE]

\* a health check without the test of the handle
SerialCheckHealthAnyFd(fd, ioctlOk) == ioctlOk

\* serial_check_health(fd): 0 for a bad handle, else whether the TIOCMGET
\* ioctl succeeds (ioctlOk)
serial_check_health(fd, ioctlOk) == IF fd < 0 THEN FALSE ELSE ioctlOk

\* utils_clean_buffer: trailing LF, CR, space (never the first byte), then
\* leading spaces, are removed
IsTrailingJunk(c) == c = LF \/ c = CR \/ c = SP

RECURSIVE TrimTrailing(_)
TrimTrailing(b) ==
    IF Len(b) > 1 /\ IsTrailingJunk(b[Len(b)])
    THEN TrimTrailing(Take(b, Len(b) - 1)) ELSE b

RECURSIVE TrimLeading(_)
TrimLeading(b) ==
    IF b # <<>> /\ Head(b) = SP THEN TrimLeading(Tail(b)) ELSE b

utils_clean_buffer(b) == TrimLeading(TrimTrailing(b))

\* The probe gate without the successful-exchange condition.
ShouldProbeTimeoutsOnly(timeouts, exchanges) == timeouts > ProbeTimeouts

\* if (consecutive_timeouts > 30 && successful_exchanges == 0)
ShouldProbe(timeouts, exchanges) ==
    timeouts > ProbeTimeouts /\ exchanges = 0

\* A reconnect threshold that is one error early.
TooManyErrorsEarly(errors) == errors >= ReconnectErrors - 1

\* if (consecutive_errors >= 5)
TooManyErrors(errors) == errors >= ReconnectErrors

\* a count of exchanges that starts again from 0
CountExchangeFromZero(n) == IF n + 1 > ExchangeWrap THEN 0 ELSE n + 1

\* a count of exchanges that is never brought back
CountExchangeNoWrap(n) == n + 1

\* successful_exchanges++; if (successful_exchanges > 10) ... = 1
CountExchange(n) == IF n + 1 > ExchangeWrap THEN 1 ELSE n + 1

\* a time-out that starts the count of errors again
ErrorsResetByTimeout(errors) == 0

\* the branch of bytes_read == 0 does not write consecutive_errors
ErrorsAfterTimeout(errors) == errors

\* a resync flag that any extracted command clears
SyncModeClearedByAny(isPoll, sync) == 0

\* if (strcmp(buffer, "POLL") == 0) { if (startup_sync_mode) ... = 0; }
SyncModeAfterCommand(isPoll, sync) == IF isPoll THEN 0 ELSE sync

\* a test of the command that takes every non-empty command for POLL
IsPollAnyCommand(cmd) == cmd # <<>>

\* strcmp(buffer, "POLL") == 0
IsPoll(cmd) == cmd = POLL

\* what temperature_get_cpu and temperature_get_nvme return, in hundredths
\* of a degree: the fallback values and a pair of parsed ones
DaemonReadings == {<<6100, 5900>>, <<4250, 3910>>}

\* the value of snprintf for the two readings: the number of characters of
\* "CPU:", the digits, "|NVME:", the digits and the line feed
FormattedLength(cpu_temp, nvme_temp) ==
    LET IntDigits(v) == IF v \div TempScale < 10 THEN 1
                        ELSE IF v \div TempScale < 100 THEN 2 ELSE 3
    IN  Len(<<"C", "P", "U", ":">>) + IntDigits(cpu_temp) + 3
          + Len(<<"|", "N", "V", "M", "E", ":">>) + IntDigits(nvme_temp) + 3
          + 1

\* the results of the environment that an iteration consults: the ioctl of
\* the probe (only when the probe runs on a valid handle), and the way
\* serial_setup goes (only when it is called)
IoctlResults(timeouts, exchanges, fd) ==
    IF ShouldProbe(timeouts, exchanges) /\ fd >= 0 THEN BOOLEAN ELSE {TRUE}

SetupResults(called) == IF called THEN SetupOutcomes ELSE {"ok"}

\* the bytes that may arrive during one call of the reader
DaemonWires ==
    {<<>>,
     POLL \o <<CR, LF>>,
     <<SP>> \o POLL \o <<LF>>,
     <<"x", LF>>,
     <<SP, LF>>,
     <<CR, LF, "x", LF>>,
     <<"P", "O">>}

\* serial_read_complete_command as the main loop calls it: -1 at once for a
\* bad handle, else one of the results of the call during which w arrives
ReadCall(fd, mem, buf, w) ==
    IF fd < 0
    THEN {ReadResult(-1, <<>>, buf, <<>>, 0, FALSE, "badfd", mem)}
    ELSE {o \in ReadOutcomes(mem, buf, w, 0, FALSE) : o.wire = <<>>}

DaemonInit ==
    /\ g_read_buffer = <<>>
    /\ g_read_mem = ZeroMem
    /\ ReaderIdle
    /\ DaemonIdle
    /\ BoardIdle

\* run_main_loop up to the loop: the first serial_setup
Startup ==
    /\ pc = "start"
    /\ \E so \in SetupOutcomes :
         LET su == serial_setup(openFds, so)
         IN  /\ serial_fd' = su.fd
             /\ openFds' = su.open
             /\ g_read_buffer' = IF su.reset THEN <<>> ELSE g_read_buffer
             /\ g_read_mem' = IF su.reset THEN ZeroMem ELSE g_read_mem
             /\ pc' = IF su.fd < 0 THEN "done" ELSE "loop"
             /\ ev' = [NoEvent EXCEPT !.peak = su.peak, !.ok = su.fd >= 0,
                                      !.how = "startup"]
    /\ UNCHANGED <<readerVars, g_running, counterVars, boardVars>>

\* daemon_signal_handler for SIGINT/SIGTERM
Signal ==
    /\ pc # "done"
    /\ g_running
    /\ g_running' = FALSE
    /\ ev' = NoEvent
    /\ UNCHANGED <<frameVars, pc, serial_fd, openFds, counterVars,
                   boardVars>>

\* a loop condition that never fails
LoopConditionAlways(running) == TRUE

\* while (g_running)
LoopCondition(running) == running

\* the loop condition fails: cleanup after the loop
LoopExit ==
    /\ pc = "loop"
    /\ ~LoopCondition(g_running)
    /\ openFds' = serial_close(serial_fd, openFds)
    /\ pc' = "done"
    /\ ev' = [NoEvent EXCEPT !.how = "exit", !.peak = Cardinality(openFds)]
    /\ UNCHANGED <<frameVars, g_running, serial_fd, counterVars,
                   boardVars>>

\* One iteration of while (g_running): the health check, the read, and the
\* handling of its result.  ioctlOk, so and w are what the environment does
\* during the iteration.
Iterate ==
    /\ pc = "loop"
    /\ LoopCondition(g_running)
    /\ \E ioctlOk \in IoctlResults(consecutive_timeouts, successful_exchanges,
                                     serial_fd) :
       \E so \in SetupResults(ShouldProbe(consecutive_timeouts,
                                           successful_exchanges)
                               /\ ~serial_check_health(serial_fd, ioctlOk)) :
       \E w \in DaemonWires :
         LET probing == ShouldProbe(consecutive_timeouts, successful_exchanges)
             healthy == serial_check_health(serial_fd, ioctlOk)
             reopenA == probing /\ ~healthy
             suA     == serial_setup(serial_close(serial_fd, openFds), so)
             probe   == IF ~probing THEN "notrun"
                        ELSE IF healthy THEN "ok" ELSE "failed"
         IN
         IF reopenA /\ suA.fd < 0
         THEN \* the reconnect failed: sleep(5); continue
              /\ serial_fd' = -1
              /\ openFds' = suA.open
              /\ ev' = [NoEvent EXCEPT !.reopen = "probe", !.probe = probe,
                            !.peak = Max(Cardinality(openFds), suA.peak),
                            !.how = "continue"]
              /\ UNCHANGED <<g_read_buffer, g_read_mem, counterVars>>
         ELSE
           LET fd1   == IF reopenA THEN suA.fd ELSE serial_fd
               open1 == IF reopenA THEN suA.open ELSE openFds
               peak1 == IF reopenA THEN Max(Cardinality(openFds), suA.peak)
                        ELSE Cardinality(openFds)
               err1  == IF reopenA THEN 0 ELSE consecutive_errors
               tmo1  == IF reopenA THEN 0 ELSE consecutive_timeouts
               sync1 == IF reopenA THEN 1 ELSE startup_sync_mode
               buf1  == IF reopenA /\ suA.reset THEN <<>> ELSE g_read_buffer
               mem1  == IF reopenA /\ suA.reset THEN ZeroMem ELSE g_read_mem
           IN
           \E o \in ReadCall(fd1, mem1, buf1, w) :
             LET ev1 == [NoEvent EXCEPT
                            !.reopen = IF reopenA THEN "probe" ELSE "none",
                            !.ok = reopenA, !.probe = probe, !.peak = peak1,
                            !.ret = o.ret, !.how = o.how, !.got = Len(w),
                            !.dropped = IF reopenA /\ suA.reset
                                        THEN Len(g_read_buffer) ELSE 0,
                            !.stale = IF reopenA THEN Len(buf1) ELSE 0]
             IN
             IF o.ret > 0
             THEN \* a command was extracted
                  \E t \in DaemonReadings :
                  LET cmd    == utils_clean_buffer(o.cmd)
                      isPoll == IsPoll(cmd)
                      \* if (formatted > 0)
                      sends  == isPoll /\ FormattedLength(t[1], t[2]) > 0
                  IN  /\ consecutive_errors' = 0
                      /\ consecutive_timeouts' = 0
                      /\ startup_sync_mode' =
                            SyncModeAfterCommand(isPoll, sync1)
                      /\ successful_exchanges' =
                            IF sends THEN CountExchange(successful_exchanges)
                            ELSE successful_exchanges
                      /\ g_read_buffer' = o.buf
                      /\ g_read_mem' = o.mem
                      /\ serial_fd' = fd1
                      /\ openFds' = open1
                      /\ ev' = [ev1 EXCEPT !.cmd = cmd, !.responded = sends,
                                    !.sends = IF sends THEN 1 ELSE 0,
                                    !.rolled =
                                        sends /\ successful_exchanges
                                                   = ExchangeWrap]
             ELSE IF o.ret < 0
             THEN \* read error
                  \E so2 \in SetupResults(TooManyErrors(err1 + 1)) :
                  LET errs == err1 + 1
                      suB  == serial_setup(serial_close(fd1, open1), so2)
                  IN  /\ err1 < MaxErrors
                      /\ successful_exchanges' = 0
                      /\ IF ~TooManyErrors(errs)
                         THEN /\ consecutive_errors' = errs
                              /\ consecutive_timeouts' = tmo1
                              /\ startup_sync_mode' = sync1
                              /\ g_read_buffer' = o.buf
                              /\ g_read_mem' = o.mem
                              /\ serial_fd' = fd1
                              /\ openFds' = open1
                              /\ ev' = ev1
                         ELSE IF suB.fd < 0
                         THEN \* the reconnect failed: sleep(5); continue
                              /\ consecutive_errors' = errs
                              /\ consecutive_timeouts' = tmo1
                              /\ startup_sync_mode' = sync1
                              /\ g_read_buffer' = o.buf
                              /\ g_read_mem' = o.mem
                              /\ serial_fd' = -1
                              /\ openFds' = suB.open
                              /\ ev' = [ev1 EXCEPT !.reopen = "errors",
                                            !.ok = FALSE,
                                            !.peak = Max(peak1, suB.peak)]
                         ELSE /\ consecutive_errors' = 0
                              /\ consecutive_timeouts' = 0
                              /\ startup_sync_mode' = 1
                              /\ g_read_buffer' =
                                    IF suB.reset THEN <<>> ELSE o.buf
                              /\ g_read_mem' =
                                    IF suB.reset THEN ZeroMem ELSE o.mem
                              /\ serial_fd' = suB.fd
                              /\ openFds' = suB.open
                              /\ ev' = [ev1 EXCEPT !.reopen = "errors",
                                            !.ok = TRUE,
                                            !.peak = Max(peak1, suB.peak),
                                            !.dropped =
                                                IF suB.reset THEN Len(o.buf)
                                                ELSE 0]
             ELSE \* timeout, or bytes without a complete command
                  /\ tmo1 < MaxTimeouts
                  /\ consecutive_errors' = ErrorsAfterTimeout(err1)
                  /\ consecutive_timeouts' = tmo1 + 1
                  /\ startup_sync_mode' = sync1
                  /\ successful_exchanges' = successful_exchanges
                  /\ g_read_buffer' = o.buf
                  /\ g_read_mem' = o.mem
                  /\ serial_fd' = fd1
                  /\ openFds' = open1
                  /\ ev' = ev1
    /\ UNCHANGED <<readerVars, pc, g_running, boardVars>>

DaemonNext == Startup \/ Iterate \/ Signal \/ LoopExit

SpecDaemon == DaemonInit /\ [][DaemonNext]_vars

\* ------------------------------------------------------------------------
\* Properties of the main loop
\* ------------------------------------------------------------------------

\* C2: the error path reopens only on a read error that brings
\* consecutive_errors to at least 5; a live link is closed and reopened
\* exactly when the count reaches 5; a read error that brings the count to
\* 5 always triggers the reopen; and after a successful reopen
\* consecutive_errors and consecutive_timeouts are 0.
C2_ReconnectThreshold ==
    [][ /\ ev'.reopen = "errors" =>
              /\ ev'.ret < 0
              /\ consecutive_errors + 1 >= ReconnectErrors
        /\ (ev'.reopen = "errors" /\ serial_fd >= 0) =>
              consecutive_errors + 1 = ReconnectErrors
        /\ (ev'.ret < 0 /\ ev'.reopen # "probe"
              /\ consecutive_errors + 1 = ReconnectErrors) =>
              ev'.reopen = "errors"
        /\ (ev'.reopen = "errors" /\ ev'.ok) =>
              /\ consecutive_errors' = 0
              /\ consecutive_timeouts' = 0
      ]_vars

\* the error path has just closed and reopened the link
C2_Witness ==
    /\ ev.reopen = "errors" /\ ev.ok
    /\ consecutive_errors = 0 /\ serial_fd >= 0

\* C6: the probe path reopens only when consecutive_timeouts is above 30,
\* successful_exchanges is 0 and the probe fails; any reopen in an
\* iteration without a read error happens under exactly these conditions.
C6_SilenceProbeGating ==
    [][ /\ ev'.reopen = "probe" =>
              /\ consecutive_timeouts > ProbeTimeouts
              /\ successful_exchanges = 0
              /\ ev'.probe = "failed"
        /\ (ev'.reopen # "none" /\ ev'.ret >= 0) => ev'.reopen = "probe"
        /\ (successful_exchanges > 0 \/ ev'.probe = "ok") =>
              ev'.reopen # "probe"
      ]_vars

\* the probe has just failed after more than 30 timeouts and the link was
\* reopened
C6_Witness ==
    /\ ev.reopen = "probe" /\ ev.ok /\ ev.probe = "failed"
    /\ serial_fd >= 0

\* C9: at most one handle is open at every point, also inside a step (peak);
\* inside the loop the open handles are exactly the one the loop holds; a
\* failed serial_setup leaves none open; after the loop none is open.
C9_SingleLiveHandle ==
    /\ Cardinality(openFds) <= 1
    /\ ev.peak <= 1
    /\ pc = "loop" => openFds = (IF serial_fd >= 0 THEN {serial_fd} ELSE {})
    /\ (ev.reopen # "none" /\ ~ev.ok) => openFds = {}
    /\ pc = "done" => openFds = {}

\* a reconnect replaced the handle: the old one was closed before the new
\* one was opened
C9_Witness ==
    /\ ev.reopen # "none" /\ ev.ok /\ ev.peak = 1
    /\ pc = "loop" /\ openFds = {serial_fd}

\* ========================================================================
\* The controller (Arduino)
\* ========================================================================

\* ------------------------------------------------------------------------
\* FanController
\* ------------------------------------------------------------------------

RECURSIVE Pow(_, _)
Pow(b, e) == IF e = 0 THEN 1 ELSE b * Pow(b, e - 1)

\* a/b <= c/d for a, c >= 0 and b, d > 0, without forming a product
RECURSIVE LeqFrac(_, _, _, _)
LeqFrac(a, b, c, d) ==
    IF a \div b # c \div d THEN a \div b < c \div d
    ELSE IF a % b = 0 THEN TRUE
    ELSE IF c % d = 0 THEN FALSE
    ELSE LeqFrac(d, c % d, b, a % b)

RECURSIVE GCD(_, _)
GCD(a, b) == IF b = 0 THEN a ELSE GCD(b, a % b)

\* k <= span * pow(n / d, FAN_CURVE_EXPONENT)
UnderCurve(k, n, d, span) ==
    LeqFrac(Pow(k, CurveExpDen), Pow(span, CurveExpDen),
            Pow(n, CurveExpNum), Pow(d, CurveExpNum))

RECURSIVE LargestUnder(_, _, _, _, _)
LargestUnder(lo, hi, n, d, span) ==
    IF lo = hi THEN lo
    ELSE LET mid == (lo + hi + 1) \div 2
         IN  IF UnderCurve(mid, n, d, span)
             THEN LargestUnder(mid, hi, n, d, span)
             ELSE LargestUnder(lo, mid - 1, n, d, span)

\* (int)(curvedRatio * span) for tempRatio = n / d, 0 < n < d, computed
\* over the reals
CurvedPart(n, d, span) ==
    LargestUnder(0, span, n \div GCD(n, d), d \div GCD(n, d), span)

\* calculateFanSpeed as a straight line without the two end branches
CalculateFanSpeedUnclamped(temp, minTemp, maxTemp) ==
    FAN_SPEED_MIN
      + ((temp - minTemp) * (FAN_SPEED_MAX - FAN_SPEED_MIN))
          \div (maxTemp - minTemp)

\* calculateFanSpeed with the two end branches exchanged
CalculateFanSpeedSwapped(temp, minTemp, maxTemp) ==
    IF temp <= minTemp THEN FAN_SPEED_MAX
    ELSE IF temp >= maxTemp THEN FAN_SPEED_MIN
    ELSE FAN_SPEED_MIN
           + CurvedPart(temp - minTemp, maxTemp - minTemp,
                        FAN_SPEED_MAX - FAN_SPEED_MIN)

calculateFanSpeed(temp, minTemp, maxTemp) ==
    IF temp <= minTemp THEN FAN_SPEED_MIN
    ELSE IF temp >= maxTemp THEN FAN_SPEED_MAX
    ELSE FAN_SPEED_MIN
           + CurvedPart(temp - minTemp, maxTemp - minTemp,
                        FAN_SPEED_MAX - FAN_SPEED_MIN)

SetMax(S) == CHOOSE m \in S : \A x \in S : x <= m

\* the CPU reading of the first endpoint only
HighestCpuOfFirst(temps) ==
    IF temps[0].isValid THEN Max(0, temps[0].cpuTemp) ELSE 0

\* TemperatureSensor::getHighestTemperatures
highestCpu(temps) ==
    SetMax({0} \cup {temps[i].cpuTemp : i \in {j \in Devices : temps[j].isValid}})

highestNvme(temps) ==
    SetMax({0} \cup {temps[i].nvmeTemp : i \in {j \in Devices : temps[j].isValid}})

\* TemperatureSensor::hasTemperatureData
hasTemperatureData(temps) ==
    \E i \in Devices :
        temps[i].isValid /\ (temps[i].cpuTemp > 0 \/ temps[i].nvmeTemp > 0)

\* updateFanSpeed with a no-data branch that leaves the output alone
UpdateFanSpeedKeep(temps, pwm) ==
    IF ~hasTemperatureData(temps)
    THEN [pwm |-> pwm, wrote |-> FALSE]
    ELSE LET newPwmValue ==
                 Max(calculateFanSpeed(highestCpu(temps),
                                       CPU_TEMP_MIN * TempScale,
                                       CPU_TEMP_MAX * TempScale),
                     calculateFanSpeed(highestNvme(temps),
                                       NVME_TEMP_MIN * TempScale,
                                       NVME_TEMP_MAX * TempScale))
         IN  [pwm |-> newPwmValue, wrote |-> newPwmValue # pwm]

\* FanController::updateFanSpeed: the new currentPwmValue and whether
\* analogWrite was called
updateFanSpeed(temps, pwm) ==
    IF ~hasTemperatureData(temps)
    THEN [pwm |-> FAN_SPEED_MIN, wrote |-> TRUE]
    ELSE LET cpuFanSpeed ==
                 calculateFanSpeed(highestCpu(temps), CPU_TEMP_MIN * TempScale,
                                   CPU_TEMP_MAX * TempScale)
             nvmeFanSpeed ==
                 calculateFanSpeed(highestNvme(temps), NVME_TEMP_MIN * TempScale,
                                   NVME_TEMP_MAX * TempScale)
             newPwmValue == Max(cpuFanSpeed, nvmeFanSpeed)
         IN  [pwm |-> newPwmValue, wrote |-> newPwmValue # pwm]

\* ------------------------------------------------------------------------
\* The controller's state as one record, for the functions that update it
\* ------------------------------------------------------------------------

Board ==
    [deviceTemps |-> deviceTemps, deviceConnected |-> deviceConnected,
     missedPolls |-> missedPolls, currentPwmValue |-> currentPwmValue,
     currentPollingDevice |-> currentPollingDevice,
     sinceCommand |-> sinceCommand, sincePoll |-> sincePoll,
     incomingData |-> incomingData, deviceResponded |-> deviceResponded,
     listening |-> listening, rx |-> rx, polls |-> polls,
     sinceDone |-> sinceDone, consumed |-> consumed, atZero |-> FALSE,
     cev |-> NoBoardEvent]

Store(c) ==
    /\ deviceTemps' = c.deviceTemps
    /\ deviceConnected' = c.deviceConnected
    /\ missedPolls' = c.missedPolls
    /\ currentPwmValue' = c.currentPwmValue
    /\ currentPollingDevice' = c.currentPollingDevice
    /\ sinceCommand' = c.sinceCommand
    /\ sincePoll' = c.sincePoll
    /\ incomingData' = c.incomingData
    /\ deviceResponded' = c.deviceResponded
    /\ listening' = c.listening
    /\ rx' = c.rx
    /\ polls' = c.polls
    /\ sinceDone' = c.sinceDone
    /\ consumed' = c.consumed
    /\ cev' = c.cev

\* the controller after a call of updateFanSpeed with the result u
Applied(c, u) ==
    [c EXCEPT !.currentPwmValue = u.pwm,
              !.cev.updates = @ + 1,
              !.cev.writes = IF u.wrote THEN @ + 1 ELSE @,
              \* analogWrite of the value that was already applied
              !.cev.redundant =
                  IF u.wrote /\ u.pwm = c.currentPwmValue
                  THEN @ + 1 ELSE @]

\* fanController->updateFanSpeed(*this)
UpdateFan(c) ==
    Applied(c, updateFanSpeed(c.deviceTemps, c.currentPwmValue))

\* ------------------------------------------------------------------------
\* TemperatureSensor
\* ------------------------------------------------------------------------

\* A line is a sequence of tokens: the two markers, digits, point, sign,
\* line ends
\* and other characters.
CPU == "CPU:"
NVME == "|NVME:"

Digits == {"0", "1", "2", "3", "4", "5", "6", "7", "8", "9"}

DigitVal(tok) ==
    CASE tok = "0" -> 0 [] tok = "1" -> 1 [] tok = "2" -> 2 [] tok = "3" -> 3
      [] tok = "4" -> 4 [] tok = "5" -> 5 [] tok = "6" -> 6 [] tok = "7" -> 7
      [] tok = "8" -> 8 [] tok = "9" -> 9

IsSpace(tok) == tok \in {SP, CR, LF}

\* String::indexOf: position of the first occurrence, from 0, or -1
indexOf(s, tok) ==
    IF \E i \in 1..Len(s) : s[i] = tok
    THEN (CHOOSE i \in 1..Len(s) :
              s[i] = tok /\ \A j \in 1..(i - 1) : s[j] # tok) - 1
    ELSE -1

\* String::substring(left, right)
substring(s, left, right) ==
    LET l == Min(left, right)
        r == Min(Max(left, right), Len(s))
    IN  IF l >= Len(s) THEN <<>> ELSE SubSeq(s, l + 1, r)

\* String::trim
RECURSIVE trim(_)
trim(s) ==
    IF s = <<>> THEN s
    ELSE IF IsSpace(Head(s)) THEN trim(Tail(s))
    ELSE IF IsSpace(s[Len(s)]) THEN trim(SubSeq(s, 1, Len(s) - 1))
    ELSE s

\* the digits a text starts with
RECURSIVE TakeDigits(_)
TakeDigits(s) ==
    IF s # <<>> /\ Head(s) \in Digits
    THEN <<Head(s)>> \o TakeDigits(Tail(s))
    ELSE <<>>

RECURSIVE DigitsValue(_, _)
DigitsValue(ds, acc) ==
    IF ds = <<>> THEN acc
    ELSE DigitsValue(Tail(ds), 10 * acc + DigitVal(Head(ds)))

\* the value of the digits after the point, in hundredths; digits after
\* the second are below the resolution
Fraction(ds) ==
    (IF Len(ds) >= 1 THEN 10 * DigitVal(ds[1]) ELSE 0)
      + (IF Len(ds) >= 2 THEN DigitVal(ds[2]) ELSE 0)

\* digits, then optionally a point and digits
Magnitude(s) ==
    LET ip == TakeDigits(s)
        rest == Drop(s, Len(ip))
        fp == IF rest # <<>> /\ Head(rest) = "."
              THEN TakeDigits(Tail(rest)) ELSE <<>>
    IN  TempScale * DigitsValue(ip, 0) + Fraction(fp)

\* String::toFloat: the number the text starts with, after white space
\* and an optional sign; 0 when it starts with none
RECURSIVE toFloat(_)
toFloat(s) ==
    IF s = <<>> THEN 0
    ELSE IF IsSpace(Head(s)) THEN toFloat(Tail(s))
    ELSE IF Head(s) = "-" THEN 0 - Magnitude(Tail(s))
    ELSE IF Head(s) = "+" THEN Magnitude(Tail(s))
    ELSE Magnitude(s)

\* the two readings parseTemperatureData extracts from a line
DecodeReadings(data) ==
    LET cpuPos == indexOf(data, CPU)
        nvmePos == indexOf(data, NVME)
    IN  IF cpuPos # -1 /\ nvmePos # -1
        THEN [ok |-> TRUE,
              cpuTemp |-> toFloat(substring(data, cpuPos + 1, nvmePos)),
              nvmeTemp |-> toFloat(substring(data, nvmePos + 1, Len(data)))]
        ELSE [ok |-> FALSE, cpuTemp |-> 0, nvmeTemp |-> 0]

\* the record of deviceId after a line that matched
Matched(c, deviceId, data) ==
    LET r == DecodeReadings(data)
    IN  [c EXCEPT !.deviceTemps[deviceId] =
                      TempRec(r.cpuTemp, r.nvmeTemp, TRUE),
                  !.deviceConnected[deviceId] = TRUE,
                  !.missedPolls[deviceId] = 0,
                  !.cev.parsed = @ \cup {deviceId},
                  !.cev.lines = @ \cup {<<deviceId, data>>}]

\* parseTemperatureData without its call of updateFanSpeed
ParseTemperatureDataDeferred(c, deviceId, data) ==
    IF DecodeReadings(data).ok
    THEN [ok |-> TRUE, c |-> Matched(c, deviceId, data)]
    ELSE [ok |-> FALSE, c |-> c]

\* TemperatureSensor::parseTemperatureData
parseTemperatureData(c, deviceId, data) ==
    IF DecodeReadings(data).ok
    THEN [ok |-> TRUE, c |-> UpdateFan(Matched(c, deviceId, data))]
    ELSE [ok |-> FALSE, c |-> c]

\* TemperatureSensor::resetMissedPolls
resetMissedPolls(c, deviceId) == [c EXCEPT !.missedPolls[deviceId] = 0]

\* handleMissedPoll without the test of deviceConnected
HandleMissedPollNoFlagTest(c, deviceId) ==
    LET m == [c EXCEPT !.missedPolls[deviceId] = @ + 1,
                       !.cev.missed = @ \cup {deviceId}]
    IN  IF m.missedPolls[deviceId] >= MAX_MISSED_POLLS
        THEN UpdateFan([m EXCEPT !.deviceConnected[deviceId] = FALSE,
                                 !.cev.disconnected = @ \cup {deviceId}])
        ELSE m

\* handleMissedPoll that drops the record of the endpoint it disconnects
HandleMissedPollForget(c, deviceId) ==
    LET m == [c EXCEPT !.missedPolls[deviceId] = @ + 1,
                       !.cev.missed = @ \cup {deviceId}]
    IN  IF m.missedPolls[deviceId] >= MAX_MISSED_POLLS
           /\ m.deviceConnected[deviceId]
        THEN UpdateFan([m EXCEPT !.deviceConnected[deviceId] = FALSE,
                                 !.deviceTemps[deviceId] =
                                     TempRec(0, 0, FALSE),
                                 !.cev.disconnected = @ \cup {deviceId}])
        ELSE m

\* handleMissedPoll that disconnects one missed poll late
HandleMissedPollLate(c, deviceId) ==
    LET m == [c EXCEPT !.missedPolls[deviceId] = @ + 1,
                       !.cev.missed = @ \cup {deviceId}]
    IN  IF m.missedPolls[deviceId] > MAX_MISSED_POLLS
           /\ m.deviceConnected[deviceId]
        THEN UpdateFan([m EXCEPT !.deviceConnected[deviceId] = FALSE,
                                 !.cev.disconnected = @ \cup {deviceId}])
        ELSE m

\* TemperatureSensor::handleMissedPoll
handleMissedPoll(c, deviceId) ==
    LET m == [c EXCEPT !.missedPolls[deviceId] = @ + 1,
                       !.cev.missed = @ \cup {deviceId}]
    IN  IF m.missedPolls[deviceId] >= MAX_MISSED_POLLS
           /\ m.deviceConnected[deviceId]
        THEN UpdateFan([m EXCEPT !.deviceConnected[deviceId] = FALSE,
                                 !.cev.disconnected = @ \cup {deviceId}])
        ELSE m

\* ------------------------------------------------------------------------
\* DeviceCommunication
\* ------------------------------------------------------------------------

\* SoftwareSerial is not part of the repository: a port is modelled by the
\* calls the source makes on it.  listen() makes the port listen,
\* stopListening() makes it stop, begin() leaves it listening, available()
\* is nonzero when the port listens and has received something.
listen(lis, i) == [lis EXCEPT ![i] = TRUE]
beginAll(lis) == [i \in Devices |-> TRUE]
available(c, i) == c.listening[i] /\ c.rx[i] # <<>>

\* the stop loop left out
StopListeningNone(lis) == lis

\* for (i...) devices[i]->stopListening()
StopListeningAll(lis) == [i \in Devices |-> FALSE]

\* startsWith("CPU:") && indexOf("|NVME:") != -1
IsTemperatureLine(s) ==
    s # <<>> /\ Head(s) = CPU /\ indexOf(s, NVME) # -1

\* DeviceCommunication::processSerialResponse
processSerialResponse(c, deviceId, response) ==
    LET cleanResponse == trim(response)
    IN  IF IsTemperatureLine(cleanResponse)
        THEN LET p == parseTemperatureData(c, deviceId, cleanResponse)
             IN  IF p.ok THEN resetMissedPolls(p.c, deviceId) ELSE p.c
        ELSE c

\* one character read from port i by pollDevices (polling) or by
\* checkIncomingData
ReadChar(c, i, polling) ==
    LET ch == Head(c.rx[i])
        r == [c EXCEPT !.rx[i] = Tail(@)]
    IN  IF ch = LF
        THEN LET p == processSerialResponse(r, i, r.incomingData[i])
             IN  [p EXCEPT !.incomingData[i] = <<>>,
                           !.deviceResponded[i] =
                               IF polling THEN TRUE ELSE @,
                           !.consumed[i] =
                               IF IsTemperatureLine(trim(r.incomingData[i]))
                               THEN "reading" ELSE "other"]
        ELSE IF ch # CR
        THEN [r EXCEPT !.incomingData[i] = Append(@, ch)]
        ELSE r

\* the branch of pollDevices that switches the ports and writes POLL; the
\* delay passes, what the port had received is read and thrown away
SendPoll(c, d) ==
    LET lis == listen(StopListeningAll(c.listening), d)
    IN  [c EXCEPT !.listening = lis,
                  !.rx = [i \in Devices |-> <<>>],
                  !.sincePoll = Min(@ + PORT_SWITCH_DELAY, POLL_INTERVAL),
                  \* commandSentTime = currentMillis, which leaves it 0
                  \* when millis() returned 0
                  !.sinceCommand =
                      IF c.atZero THEN -1
                      ELSE Min(PORT_SWITCH_DELAY, RESPONSE_TIMEOUT),
                  !.polls[d] = @ + 1,
                  !.consumed[d] = "none",
                  !.cev.sentTo = d,
                  !.cev.sentWhile = {i \in Devices : lis[i]}]

\* pollDevices: a new polling cycle starts when none runs and
\* POLL_INTERVAL has passed
\* a poller that starts the next cycle as soon as it is idle
StartCycleAtOnce(c) ==
    IF c.currentPollingDevice = -1
    THEN [c EXCEPT !.currentPollingDevice = 0, !.sincePoll = 0,
                   !.polls = [i \in Devices |-> 0],
                   !.sinceDone = -1,
                   !.cev.started = TRUE,
                   !.cev.idleFor = c.sinceDone]
    ELSE c

StartCycle(c) ==
    IF c.currentPollingDevice = -1 /\ c.sincePoll >= POLL_INTERVAL
    THEN [c EXCEPT !.currentPollingDevice = 0, !.sincePoll = 0,
                   !.polls = [i \in Devices |-> 0],
                   !.sinceDone = -1,
                   !.cev.started = TRUE,
                   !.cev.idleFor = c.sinceDone]
    ELSE c

\* if (!deviceResponded[d] && commandSentTime == 0)
NeedsSend(a, d) == ~a.deviceResponded[d] /\ a.sinceCommand = -1

\* an elapsed time that never reaches the timeout
ElapsedSinceNever(a, d) == 0

\* currentMillis - commandSentTime, currentMillis being taken before the
\* command is sent
ElapsedSince(a, d) == IF NeedsSend(a, d) THEN 0 ELSE a.sinceCommand

\* pollDevices: the read of the port of the device being polled
AfterRead(b, d) == IF available(b, d) THEN ReadChar(b, d, TRUE) ELSE b

\* pollDevices: the poller moves on from device d
Advance(m, d) ==
    [m EXCEPT !.deviceResponded[d] = FALSE,
              !.sinceCommand = -1,
              !.currentPollingDevice =
                  IF d + 1 >= NumDevices THEN -1 ELSE d + 1,
              !.sinceDone = IF d + 1 >= NumDevices THEN 0 ELSE @,
              !.consumed[d] = "none",
              !.cev.adv =
                  [dev |-> d,
                   temps |-> m.deviceTemps,
                   connected |-> m.deviceConnected[d],
                   missed |-> m.missedPolls[d],
                   matched |-> m.cev.parsed,
                   updates |-> m.cev.updates,
                   pwm |-> m.currentPwmValue,
                   line |-> m.consumed[d],
                   responded |-> m.deviceResponded[d]]]

\* pollDevices: the endpoint did not respond; the step notes whether a
\* line of it was read since its POLL
MissedPoll(r, d) ==
    [handleMissedPoll(r, d) EXCEPT
        !.cev.despite = IF r.consumed[d] # "none" THEN @ \cup {d} ELSE @]

\* pollDevices: the test for a response or a timeout, after the read
Conclude(r, d, elapsed) ==
    IF r.deviceResponded[d]
       \/ (r.sinceCommand # -1 /\ elapsed >= RESPONSE_TIMEOUT)
    THEN Advance(IF ~r.deviceResponded[d]
                 THEN MissedPoll(r, d) ELSE r, d)
    ELSE r

\* pollDevices for the device being polled
PollDevice(a, d) ==
    Conclude(AfterRead(IF NeedsSend(a, d) THEN SendPoll(a, d) ELSE a, d),
             d, ElapsedSince(a, d))

PollCurrent(a) ==
    IF a.currentPollingDevice < 0 THEN a
    ELSE PollDevice(a, a.currentPollingDevice)

\* DeviceCommunication::pollDevices
pollDevices(c) == PollCurrent(StartCycle(c))

\* DeviceCommunication::checkIncomingData
RECURSIVE CheckFrom(_, _)
CheckFrom(c, i) ==
    IF i >= NumDevices THEN c
    ELSE CheckFrom(IF available(c, i) THEN ReadChar(c, i, FALSE) ELSE c,
                   i + 1)

checkIncomingData(c) == CheckFrom(c, 0)

\* dt milliseconds pass
Elapse(c, dt) ==
    [c EXCEPT !.sincePoll = Min(@ + dt, POLL_INTERVAL),
              !.sinceCommand =
                  IF @ = -1 THEN -1 ELSE Min(@ + dt, RESPONSE_TIMEOUT),
              !.sinceDone =
                  IF @ = -1 THEN -1 ELSE Min(@ + dt, POLL_INTERVAL),
              !.cev.dt = dt]

\* ------------------------------------------------------------------------
\* The controller and its endpoints
\* ------------------------------------------------------------------------

ReadingA == <<CPU, "4", "5", NVME, "5", "0", LF>>
ReadingB == <<CPU, "7", "0", NVME, "3", "0", CR, LF>>
Garbage == <<"x", LF>>

Replies == {ReadingA, ReadingB, Garbage}

PollerInit ==
    /\ g_read_buffer = <<>>
    /\ g_read_mem = ZeroMem
    /\ ReaderIdle
    /\ DaemonIdle
    /\ BoardIdle

otherVars == <<frameVars, daemonVars, curveVars, codecVars, tachVars>>

\* setup(): FanController::begin and DeviceCommunication::begin
setup ==
    /\ lpc = "setup"
    /\ lpc' = "loop"
    /\ currentPwmValue' = FAN_SPEED_MIN
    /\ listening' = StopListeningAll(beginAll(listening))
    /\ cev' = [NoBoardEvent EXCEPT !.writes = 1]
    /\ UNCHANGED <<sensorVars, commVars, rx, linesSent, wrapped, polls,
                   sinceDone, consumed, otherVars>>

\* loop() after pollDevices: updateFanSpeed and checkIncomingData
LoopPass(c) ==
    /\ \A d \in Devices : c.missedPolls[d] <= MaxMissed
    /\ Store(checkIncomingData(UpdateFan(c)))

\* one iteration of loop(), dt milliseconds after the previous one, at a
\* moment when millis() is not 0
LoopAfter(dt) ==
    /\ lpc = "loop"
    /\ LoopPass(pollDevices(Elapse(Board, dt)))
    /\ UNCHANGED <<lpc, linesSent, wrapped, otherVars>>

loop == \E dt \in {0, Quantum} : LoopAfter(dt)

\* the iteration of loop() that runs when millis() has wrapped around to 0
loopAtWrap ==
    /\ lpc = "loop"
    /\ ~wrapped
    /\ wrapped' = TRUE
    /\ \E dt \in {0, Quantum} :
         LoopPass(pollDevices(Elapse([Board EXCEPT !.atZero = TRUE], dt)))
    /\ UNCHANGED <<lpc, linesSent, otherVars>>

\* endpoint d writes a line, which the port receives if it listens; a
\* line written to a port that does not listen is lost
EndpointSend(d) ==
    /\ lpc = "loop"
    /\ listening[d]
    /\ rx[d] = <<>>
    /\ linesSent < MaxReplies
    /\ linesSent' = linesSent + 1
    /\ \E line \in Replies :
         /\ Len(incomingData[d]) + Len(line) <= MaxLine
         /\ rx' = [rx EXCEPT ![d] = line]
    /\ cev' = NoBoardEvent
    /\ UNCHANGED <<lpc, sensorVars, currentPwmValue, commVars, listening,
                   wrapped, polls, sinceDone, consumed, otherVars>>

PollerNext ==
    \/ setup
    \/ loop
    \/ \E d \in Devices : EndpointSend(d)

SpecPoller == PollerInit /\ [][PollerNext]_vars

\* endpoint d writes bytes that no line end follows
EndpointBabble(d) ==
    /\ lpc = "loop"
    /\ listening[d]
    /\ rx[d] = <<>>
    /\ linesSent < MaxReplies
    /\ linesSent' = linesSent + 1
    /\ Len(incomingData[d]) + 2 <= MaxLine
    /\ rx' = [rx EXCEPT ![d] = <<"x", "x">>]
    /\ cev' = NoBoardEvent
    /\ UNCHANGED <<lpc, sensorVars, currentPwmValue, commVars, listening,
                   wrapped, polls, sinceDone, consumed, otherVars>>

\* the controller with endpoints that are silent, answer, write garbage
\* or write bytes without a line end
DeadEndpointNext ==
    \/ setup
    \/ loop
    \/ \E d \in Devices : EndpointSend(d)
    \/ \E d \in Devices : EndpointBabble(d)

SpecDeadEndpoint == PollerInit /\ [][DeadEndpointNext]_vars

\* the controller when one pass of loop() may fall on millis() = 0
RoundNext ==
    \/ setup
    \/ loop
    \/ loopAtWrap
    \/ \E d \in Devices : EndpointSend(d)

SpecRound == PollerInit /\ [][RoundNext]_vars

\* ------------------------------------------------------------------------
\* Properties of the poller
\* ------------------------------------------------------------------------

\* C3: an endpoint stays connected while its missed counter is below
\* MAX_MISSED_POLLS; it goes from connected to disconnected only in the
\* step whose missed poll brings the counter to MAX_MISSED_POLLS, and that
\* missed poll always disconnects it, with a fan update of its own; a
\* missed poll of an endpoint that is already disconnected only counts;
\* and a missed poll leaves the endpoint's stored readings as they were.
C3_DisconnectDetection ==
    [][\A d \in Devices :
         /\ deviceConnected'[d] => missedPolls'[d] < MAX_MISSED_POLLS
         /\ (deviceConnected[d] /\ ~deviceConnected'[d]) =>
               /\ missedPolls[d] = MAX_MISSED_POLLS - 1
               /\ missedPolls'[d] = MAX_MISSED_POLLS
               /\ d \in cev'.disconnected
               /\ deviceTemps'[d] = deviceTemps[d]
         /\ d \in cev'.disconnected =>
               /\ deviceConnected[d]
               /\ missedPolls[d] = MAX_MISSED_POLLS - 1
               /\ cev'.updates >= 2
         /\ (d \in cev'.missed /\ d \notin cev'.parsed) =>
               /\ missedPolls'[d] = missedPolls[d] + 1
               /\ deviceTemps'[d] = deviceTemps[d]
               /\ deviceConnected'[d] =
                     (deviceConnected[d]
                        /\ missedPolls'[d] < MAX_MISSED_POLLS)
               /\ (deviceConnected[d]
                     /\ missedPolls'[d] = MAX_MISSED_POLLS) =>
                     d \in cev'.disconnected
               /\ ~deviceConnected[d] =>
                     /\ d \notin cev'.disconnected
                     /\ cev'.updates = 1
    ]_vars

\* an endpoint that had readings has been disconnected, has missed a
\* further poll in the last step, and still has its readings
C3_Witness ==
    \E d \in Devices :
        /\ d \in cev.missed
        /\ ~deviceConnected[d]
        /\ missedPolls[d] > MAX_MISSED_POLLS
        /\ deviceTemps[d].isValid
        /\ deviceTemps[d].cpuTemp > 0

\* C8: at most one port listens, and POLL is written to a port only while
\* that port is the one listening.
C8_SingleActiveListener ==
    /\ Cardinality({i \in Devices : listening[i]}) <= 1
    /\ cev.sentTo # -1 =>
          /\ cev.sentWhile = {cev.sentTo}
          /\ {i \in Devices : listening[i]} = {cev.sentTo}

\* POLL has just been written to the second port, after a cycle that
\* polled the first
C8_Witness ==
    /\ cev.sentTo = 1
    /\ listening[1]
    /\ ~listening[0]

\* ------------------------------------------------------------------------
\* The fan curve on its own: two readings of one metric, the other metric
\* held fixed
\* ------------------------------------------------------------------------

CurveGrid == {x * TempScale : x \in {-1, 0} \cup (CurveLo..CurveHi)}
CurveOthers == {x * TempScale : x \in {0, 50, 70}}

CurveInit ==
    /\ g_read_buffer = <<>>
    /\ g_read_mem = ZeroMem
    /\ ReaderIdle
    /\ DaemonIdle
    /\ ControllerIdle
    /\ curveIn \in [a : CurveGrid, b : CurveGrid, other : CurveOthers,
                    metric : {"cpu", "nvme"}]
    /\ curveOut = NoCurve
    /\ CodecIdle

\* the sensor state in which the worst reading of the metric is x and the
\* worst reading of the other metric is other
CurveTemps(metric, x, other) ==
    [i \in Devices |->
        IF i # 0 THEN TempRec(0, 0, FALSE)
        ELSE IF metric = "cpu" THEN TempRec(x, other, TRUE)
        ELSE TempRec(other, x, TRUE)]

CurveMin(metric) ==
    TempScale * (IF metric = "cpu" THEN CPU_TEMP_MIN ELSE NVME_TEMP_MIN)
CurveMax(metric) ==
    TempScale * (IF metric = "cpu" THEN CPU_TEMP_MAX ELSE NVME_TEMP_MAX)

\* calculateFanSpeed and updateFanSpeed applied to both readings
CurveCompute ==
    /\ ~curveOut.done
    /\ LET i == curveIn
           lo == CurveMin(i.metric)
           hi == CurveMax(i.metric)
       IN  curveOut' =
             [done |-> TRUE,
              fa |-> calculateFanSpeed(i.a, lo, hi),
              fb |-> calculateFanSpeed(i.b, lo, hi),
              ua |-> updateFanSpeed(CurveTemps(i.metric, i.a, i.other),
                                    currentPwmValue).pwm,
              ub |-> updateFanSpeed(CurveTemps(i.metric, i.b, i.other),
                                    currentPwmValue).pwm]
    /\ UNCHANGED <<curveIn, frameVars, daemonVars, controllerVars, codecVars>>

CurveNext == CurveCompute

SpecCurve == CurveInit /\ [][CurveNext]_vars

\* C10: of two readings of one metric the larger one never gets the lower
\* speed, from calculateFanSpeed and from updateFanSpeed with the other
\* metric held fixed.
C10_CurveMonotonicity ==
    (curveOut.done /\ curveIn.a <= curveIn.b) =>
        /\ curveOut.fa <= curveOut.fb
        /\ curveOut.ua <= curveOut.ub

\* two readings inside the curved part, with different speeds
C10_Witness ==
    /\ curveOut.done
    /\ curveIn.a < curveIn.b
    /\ FAN_SPEED_MIN < curveOut.fa
    /\ curveOut.fa < curveOut.fb
    /\ curveOut.fb < FAN_SPEED_MAX
    /\ curveOut.ua < curveOut.ub

\* C11: every speed calculateFanSpeed returns and every value
\* updateFanSpeed applies lies within FAN_SPEED_MIN..FAN_SPEED_MAX, as
\* does the value begin() applies.
C11_OutputRange ==
    /\ currentPwmValue \in FAN_SPEED_MIN..FAN_SPEED_MAX
    /\ curveOut.done =>
          \A v \in {curveOut.fa, curveOut.fb, curveOut.ua, curveOut.ub} :
              v \in FAN_SPEED_MIN..FAN_SPEED_MAX

\* a reading below the low threshold and one above the high threshold:
\* both ends of the range are applied
C11_Witness ==
    /\ curveOut.done
    /\ curveIn.a < CurveMin(curveIn.metric)
    /\ curveIn.b > CurveMax(curveIn.metric)
    /\ curveIn.other = 0
    /\ curveOut.ua = FAN_SPEED_MIN
    /\ curveOut.ub = FAN_SPEED_MAX

\* ------------------------------------------------------------------------
\* The response on its own: temperature_format_response on the daemon,
\* the line reader and parseTemperatureData on the controller
\* ------------------------------------------------------------------------

DigitTok(n) ==
    CASE n = 0 -> "0" [] n = 1 -> "1" [] n = 2 -> "2" [] n = 3 -> "3"
      [] n = 4 -> "4" [] n = 5 -> "5" [] n = 6 -> "6" [] n = 7 -> "7"
      [] n = 8 -> "8" [] n = 9 -> "9"

RECURSIVE Decimal(_)
Decimal(n) ==
    IF n < 10 THEN <<DigitTok(n)>>
    ELSE Append(Decimal(n \div 10), DigitTok(n % 10))

\* "%.1f": one digit after the point, the value rounded half up
FormatFixed1(v) ==
    LET a == ((IF v < 0 THEN 0 - v ELSE v) + 5) \div 10
    IN  (IF v < 0 THEN <<"-">> ELSE <<>>)
          \o Decimal(a \div 10) \o <<".", DigitTok(a % 10)>>

\* "%.2f" of a reading given in hundredths
FormatFixed2(v) ==
    LET a == IF v < 0 THEN 0 - v ELSE v
    IN  (IF v < 0 THEN <<"-">> ELSE <<>>)
          \o Decimal(a \div TempScale)
          \o <<".", DigitTok((a % TempScale) \div 10), DigitTok(a % 10)>>

\* temperature_format_response; the 64 bytes of temp_data are never
\* filled by readings of this size
temperature_format_response(cpu_temp, nvme_temp) ==
    <<CPU>> \o FormatFixed2(cpu_temp) \o <<NVME>> \o FormatFixed2(nvme_temp)
      \o <<LF>>

\* what incomingData holds when the LF of the text is read: the
\* characters before it, without CR
LineOf(text) ==
    LET n == CHOOSE i \in 1..Len(text) :
                 text[i] = LF /\ \A j \in 1..(i - 1) : text[j] # LF
    IN  SelectSeq(Take(text, n - 1), LAMBDA ch : ch # CR)

CodecFixed == {0 - 50, 5, 3910, 4250, 6100, 11999, 14999}
CodecGrid == CodecFixed \cup (CodecLo..CodecHi)

CodecInit ==
    /\ g_read_buffer = <<>>
    /\ g_read_mem = ZeroMem
    /\ ReaderIdle
    /\ DaemonIdle
    /\ ControllerIdle
    /\ CurveIdle
    /\ codecIn \in [cpu : CodecGrid, nvme : CodecGrid]
    /\ codecOut = NoCodec

\* the daemon formats the readings; the controller receives the line,
\* trims it, tests it and decodes it into the record
CodecRoundTrip ==
    /\ ~codecOut.done
    /\ LET text == temperature_format_response(codecIn.cpu, codecIn.nvme)
           cleanResponse == trim(LineOf(text))
           r == DecodeReadings(cleanResponse)
       IN  codecOut' =
             [done |-> TRUE, text |-> text,
              accepted |-> IsTemperatureLine(cleanResponse),
              ok |-> r.ok,
              rec |-> TempRec(r.cpuTemp, r.nvmeTemp, r.ok)]
    /\ UNCHANGED <<codecIn, frameVars, daemonVars, controllerVars, curveVars>>

CodecNext == CodecRoundTrip

SpecCodec == CodecInit /\ [][CodecNext]_vars

\* C12: the text of a pair of readings is accepted as a temperature line
\* and decodes to the same two readings, within a hundredth; (42.50, 39.10)
\* is written as CPU:42.50|NVME:39.10 and a line feed.
C12_ResponseRoundTrip ==
    codecOut.done =>
        /\ codecOut.accepted
        /\ codecOut.ok
        /\ codecOut.rec.isValid
        /\ codecOut.rec.cpuTemp - codecIn.cpu \in {0 - 1, 0, 1}
        /\ codecOut.rec.nvmeTemp - codecIn.nvme \in {0 - 1, 0, 1}
        /\ (codecIn.cpu = 4250 /\ codecIn.nvme = 3910) =>
              codecOut.text = <<CPU, "4", "2", ".", "5", "0",
                                NVME, "3", "9", ".", "1", "0", LF>>

\* the pair of the example has been encoded and decoded
C12_Witness ==
    /\ codecOut.done
    /\ codecIn.cpu = 4250
    /\ codecIn.nvme = 3910
    /\ codecOut.rec = TempRec(4250, 3910, TRUE)

\* ------------------------------------------------------------------------
\* The read buffer as an array
\* ------------------------------------------------------------------------

\* C13: the cursor g_buffer_pos is between 0 and the capacity minus one,
\* the cell of g_read_buffer at the cursor is NUL, and the cells before it
\* are the buffered bytes.
C13_FrameBufferInvariant ==
    /\ Len(g_read_buffer) \in 0..(ReadBufSize - 1)
    /\ g_read_mem[Len(g_read_buffer) + 1] = NUL
    /\ \A i \in 1..Len(g_read_buffer) : g_read_mem[i] = g_read_buffer[i]

\* a read has left the buffer full, without a complete command
C13_Witness ==
    /\ pc = "loop"
    /\ ev.how = "partial"
    /\ Len(g_read_buffer) = ReadBufSize - 1
    /\ g_read_mem[ReadBufSize] = NUL

\* ------------------------------------------------------------------------
\* A line that matches
\* ------------------------------------------------------------------------

\* the record that the line data leaves for its endpoint
DecodedRecord(data) ==
    TempRec(DecodeReadings(data).cpuTemp, DecodeReadings(data).nvmeTemp,
            TRUE)

C15_ActuateOnlyOnChange == cev.redundant = 0

\* ------------------------------------------------------------------------
\* The sensor records and the fan: lines that match, in any order, and
\* passes of loop() between them
\* ------------------------------------------------------------------------

\* the readings the endpoints report, in hundredths of a degree
FanReadings ==
    {<<0, 0>>, <<0 - 500, 4500>>, <<4500, 5000>>, <<5500, 6000>>,
     <<7000, 3000>>}

FanInit == PollerInit

\* endpoint d reports a pair of readings: its line is processed
FanReport(d) ==
    /\ lpc = "loop"
    /\ \E r \in FanReadings :
         Store(processSerialResponse(
                   Board, d,
                   LineOf(temperature_format_response(r[1], r[2]))))
    /\ UNCHANGED <<lpc, linesSent, wrapped, otherVars>>

\* the call of updateFanSpeed that loop() makes in every pass
FanPass ==
    /\ lpc = "loop"
    /\ Store(UpdateFan(Board))
    /\ UNCHANGED <<lpc, linesSent, wrapped, otherVars>>

FanNext ==
    \/ setup
    \/ \E d \in Devices : FanReport(d)
    \/ FanPass

SpecFan == FanInit /\ [][FanNext]_vars

\* C16: while no record is valid with a positive CPU or NVME reading, the
\* applied output is FAN_SPEED_MIN after every call of updateFanSpeed.
C16_NoDataMeansFloor ==
    ~hasTemperatureData(deviceTemps) => currentPwmValue = FAN_SPEED_MIN

\* updateFanSpeed has been called while no endpoint had reported anything
C16_Witness ==
    /\ cev.updates = 1
    /\ cev.parsed = {}
    /\ \A d \in Devices : ~deviceTemps[d].isValid
    /\ currentPwmValue = FAN_SPEED_MIN

C19_RequestResponsePairing ==
    [][/\ ev'.sends = (IF ev'.ret > 0 /\ ev'.cmd = POLL THEN 1 ELSE 0)
       /\ (ev'.ret > 0 /\ ev'.cmd # POLL) =>
            /\ pc' = pc
            /\ g_running' = g_running
            /\ successful_exchanges' = successful_exchanges
            /\ ev'.reopen = "none" =>
                  startup_sync_mode' = startup_sync_mode
    ]_vars

\* after the exchanges have begun, a command that is not POLL has been
\* extracted and nothing was written
C19_Witness ==
    /\ ev.ret > 0
    /\ ev.cmd = <<"x">>
    /\ ev.sends = 0
    /\ pc = "loop"
    /\ startup_sync_mode = 0
    /\ successful_exchanges > 0

\* ------------------------------------------------------------------------
\* Shutdown of the daemon
\* ------------------------------------------------------------------------

\* the loop condition is evaluated again after every iteration: the read
\* waits at most read_timeout_sec and the retry path sleeps 5 seconds
SpecDaemonLive ==
    DaemonInit /\ [][DaemonNext]_vars /\ WF_vars(LoopExit)

\* C20: once g_running has been cleared, the next evaluation of the loop
\* condition ends the loop: no read is made and no command is handled
\* after it, the step that leaves the loop closes the link, and the loop
\* is left eventually, from every state of the loop, the one after a
\* failed reopen included.
C20_CooperativeShutdown ==
    /\ [][~g_running =>
            /\ ev'.ret = 0
            /\ ev'.cmd = <<>>
            /\ ev'.sends = 0
            /\ pc = "loop" =>
                  /\ pc' = "done"
                  /\ ev'.how = "exit"
                  /\ openFds' = {}]_vars
    /\ (pc = "loop" /\ ~g_running) ~> (pc = "done")

\* the loop has been left from the retry path of a failed reopen, with
\* nothing left open
C20_Witness ==
    /\ pc = "done"
    /\ ~g_running
    /\ ev.how = "exit"
    /\ serial_fd = -1
    /\ openFds = {}

\* ------------------------------------------------------------------------
\* The polling cycle
\* ------------------------------------------------------------------------

\* C21: within one cycle every endpoint is sent at most one POLL, in the
\* order of the indices: an endpoint is sent its POLL only while it is the
\* one being polled and after every endpoint before it has had one.
C21_RoundRobinWithoutRetry ==
    \A d \in Devices :
        /\ polls[d] <= 1
        /\ polls[d] = 1 => \A e \in 0..(d - 1) : polls[e] = 1
        /\ (currentPollingDevice >= 0 /\ d > currentPollingDevice) =>
              polls[d] = 0
        /\ (currentPollingDevice >= 0 /\ d < currentPollingDevice) =>
              polls[d] = 1

\* how far the cycle has got: two steps for each endpoint, the request
\* and the end of the wait, and idle after the last one
Progress(cur, since) ==
    IF cur = -1 THEN 2 * NumDevices
    ELSE 2 * cur + (IF since # -1 THEN 1 ELSE 0)

C24_BoundedRescan ==
    /\ lastCall.discards <= ReadBufSize
    /\ lastCall.waits <= 1

\* C25: a call that returns -1 because the wait or the read failed leaves
\* the bytes of the accumulation buffer and its cursor as they were when
\* the call began.
C25_ReadErrorKeepsBuffer ==
    (lastRet = -1 /\ lastCall.how = "error") =>
        g_read_buffer = lastCall.buf

\* ------------------------------------------------------------------------
\* The counters of the main loop
\* ------------------------------------------------------------------------

\* C26 as stated: an iteration in which a command was extracted leaves
\* consecutive_errors and consecutive_timeouts at 0 and successful_exchanges
\* one higher, 1 after 10.
C26_EveryCommandCounts ==
    [][ev'.ret > 0 =>
          /\ consecutive_errors' = 0
          /\ consecutive_timeouts' = 0
          /\ successful_exchanges' =
                IF successful_exchanges = ExchangeWrap THEN 1
                ELSE successful_exchanges + 1]_vars

\* C26: an iteration in which a command was extracted leaves
\* consecutive_errors and consecutive_timeouts at 0; successful_exchanges
\* is one higher, 1 after 10, when the command is POLL once cleaned, and
\* is what it was for every other command.
C26_CounterResetOnSuccess ==
    [][ev'.ret > 0 =>
          /\ consecutive_errors' = 0
          /\ consecutive_timeouts' = 0
          /\ successful_exchanges' =
                IF ev'.cmd # POLL THEN successful_exchanges
                ELSE IF successful_exchanges = ExchangeWrap THEN 1
                ELSE successful_exchanges + 1]_vars

\* a command that is not POLL has been extracted after ten answered POLLs
\* and has left the count of exchanges at 10
C26_Witness ==
    /\ ev.ret > 0
    /\ ev.cmd = <<"x">>
    /\ successful_exchanges = ExchangeWrap
    /\ consecutive_errors = 0
    /\ consecutive_timeouts = 0

\* C27: successful_exchanges stays within 0..10; it changes only by an
\* answered POLL, which adds one to it and takes it from 10 to 1, and by a
\* read error, which sets it to 0; nothing else sets it to 0.
C27_BoundedSuccessCounter ==
    [][/\ successful_exchanges \in 0..ExchangeWrap
       /\ successful_exchanges' \in 0..ExchangeWrap
       /\ ev'.responded =>
             /\ ev'.cmd = POLL
             /\ successful_exchanges' =
                   IF successful_exchanges = ExchangeWrap THEN 1
                   ELSE successful_exchanges + 1
       /\ ev'.ret < 0 => successful_exchanges' = 0
       /\ successful_exchanges' # successful_exchanges =>
             (ev'.responded \/ ev'.ret < 0)
       /\ (successful_exchanges' = 0 /\ successful_exchanges # 0) =>
             ev'.ret < 0]_vars

\* the eleventh answered POLL in a row has taken the count from 10 to 1
C27_Witness ==
    /\ ev.rolled
    /\ ev.responded
    /\ successful_exchanges = 1

\* ------------------------------------------------------------------------
\* Resynchronisation and reopening
\* ------------------------------------------------------------------------

\* an iteration of the main loop has run in this step
Iterated(e) == e.how \notin {"none", "startup", "exit"}

\* the iteration extracted a command that is POLL once cleaned
GotPoll(e) == e.ret > 0 /\ e.cmd = POLL

\* C28: startup_sync_mode is 1 at the start; it is set only by a
\* successful reopen, and every successful reopen sets it; it is cleared
\* only by an extracted POLL, and every extracted POLL clears it; it stays
\* set across time-outs, read errors, empty commands and commands that
\* are not POLL.
C28_StartupResync ==
    [][/\ pc = "start" => startup_sync_mode = 1
       /\ (startup_sync_mode = 0 /\ startup_sync_mode' = 1) =>
             (ev'.reopen # "none" /\ ev'.ok)
       /\ (ev'.reopen # "none" /\ ev'.ok /\ ~GotPoll(ev')) =>
             startup_sync_mode' = 1
       /\ (startup_sync_mode = 1 /\ startup_sync_mode' = 0) => GotPoll(ev')
       /\ GotPoll(ev') => startup_sync_mode' = 0
       /\ (startup_sync_mode = 1 /\ ~GotPoll(ev')) =>
             startup_sync_mode' = 1]_vars

\* a command that is empty once cleaned has been extracted while the flag
\* was set, and the flag is still set
C28_Witness ==
    /\ ev.ret > 0
    /\ ev.cmd = <<>>
    /\ startup_sync_mode = 1
    /\ pc = "loop"

\* C29: the accumulation buffer is empty after every successful
\* serial_setup, at the start and at a reopen, before the first read on
\* the new handle: the read that follows the reopen of the health check
\* in the same iteration starts from an empty buffer, and the reopen of
\* the error path and the first serial_setup leave it empty.
C29_ReopenResetsReader ==
    [][/\ (pc = "start" /\ pc' = "loop") =>
             (serial_fd' >= 0 /\ g_read_buffer' = <<>>)
       /\ (ev'.reopen = "probe" /\ ev'.ok) => ev'.stale = 0
       /\ (ev'.reopen = "errors" /\ ev'.ok) =>
             (serial_fd' >= 0 /\ g_read_buffer' = <<>>)]_vars

\* a reopen has succeeded while bytes of an unfinished frame were in the
\* buffer, and they are gone
C29_Witness ==
    /\ ev.reopen # "none"
    /\ ev.ok
    /\ ev.dropped > 0
    /\ ev.stale = 0
    /\ serial_fd >= 0

\* C30: a reopen that fails leaves no handle, sends nothing, and does not
\* zero consecutive_errors or consecutive_timeouts nor touch the resync
\* flag; an iteration that begins without a handle does not read from the
\* link or write to it unless it first reopens with success, and it
\* always calls serial_setup again; when that call succeeds the handle is
\* live again, the two counters start again from 0 (the read that follows
\* in the same iteration counts as the first) and the resync flag is set
\* until a POLL is extracted.
C30_FailedReopen ==
    [][/\ (ev'.reopen # "none" /\ ~ev'.ok) =>
             /\ serial_fd' = -1
             /\ openFds' = {}
             /\ ev'.sends = 0
             /\ consecutive_errors' >= consecutive_errors
             /\ consecutive_timeouts' = consecutive_timeouts
             /\ startup_sync_mode' = startup_sync_mode
       /\ (serial_fd = -1 /\ pc = "loop" /\ Iterated(ev')) =>
             /\ ev'.reopen # "none"
             /\ ~ev'.ok =>
                   /\ ev'.how \in {"continue", "badfd"}
                   /\ ev'.sends = 0
                   /\ g_read_buffer' = g_read_buffer
             /\ ev'.ok =>
                   /\ serial_fd' >= 0
                   /\ serial_fd' \in openFds'
                   /\ consecutive_errors' =
                         (IF ev'.reopen = "probe" /\ ev'.ret < 0
                          THEN 1 ELSE 0)
                   /\ consecutive_timeouts' =
                         (IF ev'.reopen = "probe" /\ ev'.ret = 0
                          THEN 1 ELSE 0)
                   /\ (startup_sync_mode' = 1 \/ GotPoll(ev'))]_vars

\* the read was refused for want of a handle, and the reopen that the
\* error path then tried has succeeded
C30_Witness ==
    /\ ev.how = "badfd"
    /\ ev.reopen = "errors"
    /\ ev.ok
    /\ serial_fd >= 0
    /\ consecutive_errors = 0

\* ------------------------------------------------------------------------
\* The commands the reader returns
\* ------------------------------------------------------------------------

\* C31: no command returned by serial_read_complete_command contains a CR
\* or an LF byte.
C31_NoTerminatorInCommand ==
    \A i \in DOMAIN returned :
        \A j \in DOMAIN returned[i] : returned[i][j] \notin {CR, LF}

\* the accumulation buffer holds a frame that can be returned: a
\* terminator, and before it a segment that is neither empty nor too long
HoldsFrame(buf) == CmdEnd(buf) # -1 /\ SegmentValid(buf)

\* C32: a frame that can be returned and sits in the accumulation buffer
\* when no further byte arrives is eventually taken out of the buffer and
\* returned by one of the calls that follow.
C32_BufferedFramesDelivered ==
    (wire = <<>> /\ HoldsFrame(g_read_buffer)) ~> ~HoldsFrame(g_read_buffer)

\* ------------------------------------------------------------------------
\* The fragments and the two readers of the controller
\* ------------------------------------------------------------------------

\* C33: when POLL is sent to an endpoint its fragment buffer incomingData
\* is empty (the pass that sends reads nothing afterwards, the port having
\* just been drained, so the buffer is as it was at the moment of sending).
C33_FragmentIsolation ==
    cev.sentTo # -1 => incomingData[cev.sentTo] = <<>>

\* C34: an endpoint's missed counter is incremented at a timeout only if
\* no complete line of that endpoint was read, by pollDevices or by
\* checkIncomingData, since its POLL was sent.
C34_MissedOnlyWhenSilent ==
    cev.despite = {}

\* ------------------------------------------------------------------------
\* Silence, time-outs and errors in the main loop
\* ------------------------------------------------------------------------

\* C35: a link on which every read times out is probed whether or not
\* POLL exchanges had succeeded before: once more than 30 reads in a row
\* have timed out, every iteration whose read times out with no byte
\* received invokes the probe.  (A
\* time-out changes nothing the probe depends on but the count of
\* time-outs, so a probe that is not invoked then is not invoked for as
\* long as the silence lasts.)
C35_SilentLinkProbed ==
    [][(consecutive_timeouts > ProbeTimeouts /\ ev'.how = "timeout"
           /\ ev'.got = 0) =>
          ev'.probe # "notrun"]_vars

\* the count of time-outs the read of this iteration started from: 0 when
\* the health check has just reopened the link
TimeoutsBefore(e, n) == IF e.reopen = "probe" /\ e.ok THEN 0 ELSE n

\* C36: consecutive_timeouts is incremented only by an iteration in which
\* no byte was received, and an iteration that received bytes without
\* completing a frame counts neither as a time-out nor as an error.
C36_TimeoutCountsOnlySilence ==
    [][/\ (Iterated(ev') /\ consecutive_timeouts' =
               TimeoutsBefore(ev', consecutive_timeouts) + 1) =>
             ev'.got = 0
       /\ ev'.how = "partial" =>
             /\ consecutive_timeouts' =
                   TimeoutsBefore(ev', consecutive_timeouts)
             /\ consecutive_errors' <= consecutive_errors]_vars

\* C37: consecutive_errors goes down only by an extracted command or a
\* successful reopen; an iteration whose read returns 0 leaves it as it
\* was, and every read error adds one to it, so that errors separated by
\* time-outs add up to the threshold of the reopen.
C37_ErrorsSurviveTimeouts ==
    [][/\ consecutive_errors' < consecutive_errors =>
             (ev'.ret > 0 \/ (ev'.reopen # "none" /\ ev'.ok))
       /\ (Iterated(ev') /\ ev'.ret = 0
              /\ ~(ev'.reopen # "none" /\ ev'.ok)) =>
             consecutive_errors' = consecutive_errors
       /\ (ev'.ret < 0 /\ ev'.reopen = "none") =>
             /\ consecutive_errors' = consecutive_errors + 1
             /\ consecutive_errors' < ReconnectErrors]_vars

\* a read has timed out with four errors counted, after other time-outs,
\* and the four are still counted
C37_Witness ==
    /\ ev.how = "timeout"
    /\ ev.got = 0
    /\ consecutive_errors = ReconnectErrors - 1
    /\ consecutive_timeouts > 1

\* C38: a poll of endpoint d during which d returned a terminated line
\* that is not a reading ends with the poll marked as responded, without
\* a miss, with the record, the connected flag and the missed counter of d
\* as they were, and without a call of updateFanSpeed.
C38_NonReadingLinesNeutral ==
    [][\A d \in Devices :
          (cev'.adv.dev = d /\ cev'.adv.line = "other") =>
              /\ cev'.adv.responded
              /\ d \notin cev'.missed
              /\ missedPolls'[d] = missedPolls[d]
              /\ deviceTemps'[d] = deviceTemps[d]
              /\ deviceConnected'[d] = deviceConnected[d]
              /\ cev'.adv.updates = 0]_vars

\* ------------------------------------------------------------------------
\* The records of the endpoints
\* ------------------------------------------------------------------------

\* C39: an endpoint whose connected flag is set has a valid record and
\* fewer than MAX_MISSED_POLLS missed polls.
C39_ConnectedImpliesHealthy ==
    \A d \in Devices :
        deviceConnected[d] =>
            /\ deviceTemps[d].isValid
            /\ missedPolls[d] < MAX_MISSED_POLLS

\* an endpoint is still connected one missed poll before the limit
C39_Witness ==
    \E d \in Devices :
        /\ deviceConnected[d]
        /\ deviceTemps[d].isValid
        /\ missedPolls[d] = MAX_MISSED_POLLS - 1

\* ------------------------------------------------------------------------
\* The tachometer: tachISR against calculateRPM
\* ------------------------------------------------------------------------

notTachVars == <<frameVars, daemonVars, lpc, sensorVars, currentPwmValue,
                 commVars, portVars, linesSent, wrapped, polls, sinceDone,
                 consumed, cev, curveVars, codecVars>>

\* unsigned int arithmetic
UInt(n) == n % UIntRange

\* calculateRPM without noInterrupts()
NoInterruptsForgotten(on) == on

\* noInterrupts()
NoInterrupts(on) == FALSE

TachInit == PollerInit

\* tachISR runs n times in a row: tachCount++ each time
TachISRRuns(n) ==
    /\ IF n = 1 THEN pulses % PulseBurst < MaxEdges ELSE pulses < PulseBurst
    /\ tachCount' = UInt(tachCount + n)
    /\ pulses' = pulses + n

\* a falling edge on the pin: tachISR runs at once when interrupts are
\* enabled; when they are disabled the edge is remembered and tachISR
\* runs once they are enabled again
tachISR ==
    /\ intOn
    /\ ~irq
    /\ TachISRRuns(1)
    /\ UNCHANGED <<rpm, count, tpc, intOn, irq, taken, notTachVars>>

\* a burst of falling edges, each served by tachISR before the main
\* program executes its next statement
TachBurst ==
    /\ intOn
    /\ ~irq
    /\ TachISRRuns(PulseBurst)
    /\ UNCHANGED <<rpm, count, tpc, intOn, irq, taken, notTachVars>>

TachEdgeMasked ==
    /\ ~intOn
    /\ ~irq
    /\ irq' = TRUE
    /\ UNCHANGED <<tachCount, rpm, count, tpc, intOn, pulses, taken,
                   notTachVars>>

TachPending ==
    /\ intOn
    /\ irq
    /\ irq' = FALSE
    /\ TachISRRuns(1)
    /\ UNCHANGED <<rpm, count, tpc, intOn, taken, notTachVars>>

\* calculateRPM, statement by statement
CalcDisable ==
    /\ tpc = "idle"
    /\ ~irq
    /\ intOn' = NoInterrupts(intOn)
    /\ tpc' = "read"
    /\ UNCHANGED <<tachCount, rpm, count, irq, pulses, taken, notTachVars>>

CalcRead ==
    /\ tpc = "read"
    /\ count' = tachCount
    /\ tpc' = "reset"
    /\ UNCHANGED <<tachCount, rpm, intOn, irq, pulses, taken, notTachVars>>

CalcReset ==
    /\ tpc = "reset"
    /\ tachCount' = 0
    /\ taken' = pulses
    /\ pulses' = 0
    /\ tpc' = "enable"
    /\ UNCHANGED <<rpm, count, intOn, irq, notTachVars>>

CalcEnable ==
    /\ tpc = "enable"
    /\ intOn' = TRUE
    /\ tpc' = "rpm"
    /\ UNCHANGED <<tachCount, rpm, count, irq, pulses, taken, notTachVars>>

CalcRpm ==
    /\ tpc = "rpm"
    /\ rpm' = UInt(count * RpmPerPulse)
    /\ tpc' = "idle"
    /\ UNCHANGED <<tachCount, count, intOn, irq, pulses, taken, notTachVars>>

TachNext ==
    \/ tachISR
    \/ TachBurst
    \/ TachEdgeMasked
    \/ TachPending
    \/ CalcDisable
    \/ CalcRead
    \/ CalcReset
    \/ CalcEnable
    \/ CalcRpm

SpecTach == TachInit /\ [][TachNext]_vars

\* C40 as stated: every run of tachISR is counted in exactly one
\* calculation, and the rpm a calculation leaves is 30 times the runs of
\* tachISR since the calculation before it.
C40_RpmIsThirtyTimesPulses ==
    /\ tpc \in {"enable", "rpm", "idle"} => count = taken
    /\ tpc = "idle" => rpm = RpmPerPulse * taken

\* the half of C40 that holds: every run of tachISR is counted in exactly
\* one calculation, the count being kept in 16 bits: tachCount is the
\* number of runs since the last reset and the copy a calculation takes is
\* the number of runs between two resets, both modulo 65536, and the rpm
\* it leaves is 30 times that copy modulo 65536.
C40_TachPulseConservation ==
    /\ tachCount = UInt(pulses)
    /\ tpc \in {"enable", "rpm", "idle"} => count = UInt(taken)
    /\ tpc = "idle" => rpm = UInt(RpmPerPulse * UInt(taken))
    /\ tpc \in {"read", "reset", "enable"} <=> ~intOn

\* a calculation has counted more pulses than a 16-bit rpm can hold thirty
\* times, tachISR has run again since its reset, and the next calculation
\* has not started
C40_ConservationReached ==
    /\ tpc = "idle"
    /\ taken >= PulseBurst
    /\ pulses > 0
    /\ rpm < RpmPerPulse * taken

====
